---------------------------- MODULE Spec2Model ----------------------------
(***************************************************************************)
(* The pricing-sheet ingestion pipeline of winelistmanager:                *)
(*   src/unnamed/part_005 (types/pricing: PriceRowV3, parseLocaleNumber,   *)
(*     normalizeColor, computeDisplayPrice),                               *)
(*   src/src/utils/excelParser.ts (parseWorkbookV2),                       *)
(*   src/src/pages/PricingUpload.tsx (the review session's handlers),      *)
(*   src/src/components/PricingUpload/PreviewTable.tsx (handleCellEdit).   *)
(*                                                                         *)
(* Values.  A sheet cell is a tagged value: S(s) is a string cell, N(n) a  *)
(* numeric cell.  A JavaScript number is the reduced fraction <<n, d>>     *)
(* with d > 0, and null is <<>>.  A colour is one of the four codes, the   *)
(* empty string (the blank option of the selector) or NullColor.           *)
(***************************************************************************)
EXTENDS Integers, Sequences, FiniteSets, TLC

VARIABLES selectedFile, parseResult, isProcessing, edits,
          priceInput, priceOutput, localeInput, localeOutput,
          colorInput, colorOutput,
          props, progress, phase, isOnline, chunkIndex, imported, errors,
          calls, completions, queueStore,
          queuedImports, enqueued

\* The state of the upload page, of the price calculation on its own, and
\* of ImportActions with the network and the offline queue.
sessionVars == <<selectedFile, parseResult, isProcessing, edits>>
priceVars ==
  <<priceInput, priceOutput, localeInput, localeOutput, colorInput, colorOutput>>
importVars ==
  <<props, progress, phase, isOnline, chunkIndex, imported, errors, calls,
    completions, queueStore>>
\* The list getQueuedImports returned last, and the entries that calls of
\* the queue on its own enqueued and did not remove since, in call order.
queueVars == <<queuedImports, enqueued>>

vars == <<sessionVars, priceVars, importVars, queueVars>>

-----------------------------------------------------------------------------
(* Bounds of the model.                                                    *)

\* Longest sheet (data rows) the parse-only specification draws.
MaxRows == 3
\* Longest sheet (data rows) the review specification draws.
MaxReviewRows == 2
\* Number of handleUpdateRow / handleAutoFillColors calls in one session.
MaxEdits == 2

\* Number of chunks of the largest import batch.
MaxChunks == 3
\* Longest string parseLocaleNumber is applied to on its own.
MaxText == 4
\* Most rows above the header row of a sheet.
MaxLead == 5
\* Most data rows of the sheets that are uploaded, edited and imported.
MaxOffsetRows == 2
\* Most entries of the offline queue.
MaxQueued == 3

-----------------------------------------------------------------------------
(* Numbers.                                                                *)

Null == <<>>

Abs(n) == IF n < 0 THEN -n ELSE n

RECURSIVE GCD(_, _)
GCD(a, b) == IF b = 0 THEN a ELSE GCD(b, a % b)

\* The number n/d (d # 0) as a reduced fraction with a positive denominator.
Rat(n, d) ==
  LET g == GCD(Abs(n), Abs(d))
      s == IF d < 0 THEN -1 ELSE 1
  IN  <<(s * n) \div g, (s * d) \div g>>

IsNull(x) == x = Null

\* JavaScript truthiness of a number-or-null: null and 0 are falsy.
Truthy(x) == ~IsNull(x) /\ x[1] # 0

\* a ?? b
Coalesce(a, b) == IF IsNull(a) THEN b ELSE a

\* x >= k for a number x and an integer k.
RatGE(x, k) == x[1] >= k * x[2]

IsInt(x) == x[2] = 1

Pow10(k) == IF k = 0 THEN 1 ELSE IF k = 1 THEN 10 ELSE IF k = 2 THEN 100
            ELSE IF k = 3 THEN 1000 ELSE 10000

-----------------------------------------------------------------------------
(* Strings.  A string is a TLA+ string of a fixed vocabulary; Chars gives  *)
(* its characters and Words its lower-cased words, the two views the       *)
(* code's regular expressions read.                                        *)

S(s) == [t |-> "str", v |-> s]
N(n) == [t |-> "num", v |-> n]

NBSP == "nbsp"

\* The characters of a string ("nbsp" stands for U+00A0).
Chars(s) ==
  CASE s = ""         -> <<>>
    [] s = " "        -> <<" ">>
    [] s = "0"        -> <<"0">>
    [] s = "6"        -> <<"6">>
    [] s = "12"       -> <<"1", "2">>
    [] s = "24"       -> <<"2", "4">>
    [] s = "-5"       -> <<"-", "5">>
    [] s = "190,69"   -> <<"1", "9", "0", ",", "6", "9">>
    [] s = "2 288,23" -> <<"2", " ", "2", "8", "8", ",", "2", "3">>
    [] s = "2,288.23" -> <<"2", ",", "2", "8", "8", ".", "2", "3">>
    [] s = "12 x 750" -> <<"1", "2", " ", "x", " ", "7", "5", "0">>
    [] s = "R"        -> <<"R">>
    [] s = "n/a"      -> <<"n", "/", "a">>

\* s.toLowerCase() split into its words (maximal runs of letters and digits).
Words(s) ==
  CASE s = ""                  -> <<>>
    [] s = " "                 -> <<>>
    [] s = "White Wine"        -> <<"white", "wine">>
    [] s = "Red Wine"          -> <<"red", "wine">>
    [] s = "KLAWER CELLARS"    -> <<"klawer", "cellars">>
    [] s = "Klawer Cellars"    -> <<"klawer", "cellars">>
    [] s = "BOSCHENDAL ESTATE" -> <<"boschendal", "estate">>
    [] s = "Boschendal"        -> <<"boschendal">>
    [] s = "Western Cape"      -> <<"western", "cape">>
    [] s = "Stellenbosch"      -> <<"stellenbosch">>
    [] s = "Chardonnay"        -> <<"chardonnay">>
    [] s = "Merlot"            -> <<"merlot">>
    [] s = "Tinta Barocca"     -> <<"tinta", "barocca">>
    [] s = "Sauvignon Blanc"   -> <<"sauvignon", "blanc">>
    [] s = "750ml"             -> <<"750ml">>
    [] s = "RED"               -> <<"red">>
    [] s = "WHITE"             -> <<"white">>
    [] s = "ROSE"              -> <<"rose">>
    [] s = "DESSERT"           -> <<"dessert">>
    [] s = "red"               -> <<"red">>
    [] s = "Rouge"             -> <<"rouge">>
    [] s = "blanc"             -> <<"blanc">>
    [] s = "wit"               -> <<"wit">>
    [] s = "Rosé"              -> <<"rosé">>
    [] s = "blush"             -> <<"blush">>
    [] s = "desert"            -> <<"desert">>
    [] s = "Sweet"             -> <<"sweet">>
    [] s = "constructor"       -> <<"constructor">>
    [] s = "Late Harvest"      -> <<"late", "harvest">>
    [] s = "Brut Rosé"         -> <<"brut", "rosé">>
    [] s = "Purple"            -> <<"purple">>
    [] s = "Brand"             -> <<"brand">>
    [] s = "Area"              -> <<"area">>
    [] s = "Product"           -> <<"product">>
    [] s = "Case"              -> <<"case">>
    [] s = "Size"              -> <<"size">>
    [] s = "Color"             -> <<"color">>
    [] s = "Exv Per case"      -> <<"exv", "per", "case">>
    [] s = "Exv Per unit"      -> <<"exv", "per", "unit">>
    [] s = "Inv Per case"      -> <<"inv", "per", "case">>
    [] s = "Inv Per unit"      -> <<"inv", "per", "unit">>
    [] s = "Region"            -> <<"region">>
    [] s = "Item"              -> <<"item">>
    [] s = "Name"              -> <<"name">>
    [] s = "Cases"             -> <<"cases">>
    [] s = "Colour"            -> <<"colour">>
    [] s = "0"                 -> <<"0">>
    [] s = "6"                 -> <<"6">>
    [] s = "12"                -> <<"12">>
    [] s = "24"                -> <<"24">>
    [] s = "-5"                -> <<"5">>
    [] s = "190,69"            -> <<"190", "69">>
    [] s = "2 288,23"          -> <<"2", "288", "23">>

\* s.trim(): the only strings of the vocabulary with outer whitespace are
\* the whitespace-only ones.
Trim(s) == IF s = " " THEN "" ELSE s

\* String(n) for the small integers a numeric cell holds.
NumText(n) ==
  CASE n = 0 -> "0" [] n = 6 -> "6" [] n = 12 -> "12" [] n = 24 -> "24"
    [] n = -5 -> "-5"

\* String(c ?? "") of a cell.
CellText(c) == IF c.t = "num" THEN NumText(c.v) ELSE c.v

\* cell === null || cell === undefined || cell?.toString().trim() === ''
IsBlankCell(c) == c.t = "str" /\ Trim(c.v) = ""

\* !cell || cell.toString().trim() === '' : the number 0 is falsy as well.
IsFalsyOrBlankCell(c) == IF c.t = "num" THEN c.v = 0 ELSE Trim(c.v) = ""

RECURSIVE JoinWords(_)
JoinWords(ws) ==
  IF ws = <<>> THEN ""
  ELSE IF Len(ws) = 1 THEN ws[1]
  ELSE ws[1] \o " " \o JoinWords(Tail(ws))

\* Whether the word sequence pat occurs in ws as consecutive words.
HasPhrase(ws, pat) ==
  \E i \in 1..(Len(ws) - Len(pat) + 1) :
     \A k \in 1..Len(pat) : ws[i + k - 1] = pat[k]

\* Whether one of the phrases occurs in ws.
HasAny(ws, phrases) == \E pat \in phrases : HasPhrase(ws, pat)

-----------------------------------------------------------------------------
(* types/pricing: parseLocaleNumber.                                       *)

NaN == <<0, 0>>

IsDigit(c) == c \in {"0", "1", "2", "3", "4", "5", "6", "7", "8", "9"}

DigitVal(c) ==
  CASE c = "0" -> 0 [] c = "1" -> 1 [] c = "2" -> 2 [] c = "3" -> 3
    [] c = "4" -> 4 [] c = "5" -> 5 [] c = "6" -> 6 [] c = "7" -> 7
    [] c = "8" -> 8 [] c = "9" -> 9

\* The value of a sequence of decimal digits.
RECURSIVE DigitsValue(_)
DigitsValue(ds) ==
  IF ds = <<>> THEN 0
  ELSE 10 * DigitsValue(SubSeq(ds, 1, Len(ds) - 1)) + DigitVal(ds[Len(ds)])

\* \s matches the plain space and the non-breaking space.
IsSpaceChar(c) == c \in {" ", NBSP}

IsDot(c) == c = "."

\* The position of the first "." of body.
FirstDot(body) ==
  CHOOSE i \in 1..Len(body) :
    body[i] = "." /\ \A j \in 1..(i - 1) : body[j] # "."

\* The value of an unsigned decimal literal, given its dots and digits; NaN
\* when body is not [0-9]+(.[0-9]*)? or .[0-9]+ .
decimalOf(body, dots, digits) ==
  IF Len(dots) > 1 \/ Len(digits) = 0 \/ Len(digits) + Len(dots) # Len(body)
  THEN NaN
  ELSE Rat(DigitsValue(digits),
           Pow10(IF dots = <<>> THEN 0 ELSE Len(body) - FirstDot(body)))

unsignedNumber(body) ==
  decimalOf(body, SelectSeq(body, IsDot), SelectSeq(body, IsDigit))

Negated(x) == IF x = NaN THEN NaN ELSE <<-x[1], x[2]>>

\* Number(s) for a string s over [0-9.+-]: the empty string is 0, a signed
\* decimal literal is its value, anything else is NaN.
JSNumber(cs) ==
  IF cs = <<>> THEN Rat(0, 1)
  ELSE IF cs[1] = "-" THEN Negated(unsignedNumber(Tail(cs)))
  ELSE IF cs[1] = "+" THEN unsignedNumber(Tail(cs))
  ELSE unsignedNumber(cs)

NotSpace(c) == ~IsSpaceChar(c)
NotComma(c) == c # ","
IsNumericChar(c) == IsDigit(c) \/ c \in {".", "+", "-"}
HasChar(cs, c) == \E i \in 1..Len(cs) : cs[i] = c

\* resolveSeparators dropping the commas in every case.
resolveSeparators_dropCommas(s) == SelectSeq(s, NotComma)

\* Both separators: the commas are dropped; commas only: each becomes a dot.
resolveSeparators(s) ==
  IF HasChar(s, ",") /\ HasChar(s, ".") THEN SelectSeq(s, NotComma)
  ELSE IF HasChar(s, ",")
       THEN [i \in 1..Len(s) |-> IF s[i] = "," THEN "." ELSE s[i]]
       ELSE s

\* Number.isFinite(n) ? n : null
finiteOrNull(n) == IF n = NaN THEN Null ELSE n

\* parseLocaleNumber from the trimmed string without its whitespace on.
parseLocaleChars(s) ==
  IF s = <<>> THEN Null
  ELSE finiteOrNull(JSNumber(SelectSeq(resolveSeparators(s), IsNumericChar)))

\* parseLocaleNumber of the string with the characters: a string that
\* trims to nothing is one without a character that is no whitespace.
parseLocaleText(text) == parseLocaleChars(SelectSeq(text, NotSpace))

\* String(n) of a finite integer parses back to n.
parseLocaleNumber(input) ==
  IF input.t = "num" THEN Rat(input.v, 1)
  ELSE parseLocaleText(Chars(input.v))

-----------------------------------------------------------------------------
(* types/pricing: normalizeColor.                                          *)

NullColor == "<null>"

WineColorEnum == {"RED", "WHITE", "ROSE", "DESSERT"}

\* raw.toLowerCase(): the vocabulary's strings are words separated by
\* single spaces, but for the formatted numbers, which are no key of a
\* table whether their punctuation is kept or not.
Lower(s) == JoinWords(Words(s))

\* What the object literal inherits under the key "constructor".
ObjectConstructor == "<function Object>"

\* COLOR_MAP[k], NullColor for undefined: the own keys of the literal, and
\* the key of the vocabulary it inherits from Object.prototype.
COLOR_MAP(k) ==
  CASE k \in {"red", "rouge"}              -> "RED"
    [] k \in {"blanc", "white", "wit"}     -> "WHITE"
    [] k \in {"rosé", "rose", "blush"}     -> "ROSE"
    [] k \in {"dessert", "desert", "sweet"} -> "DESSERT"
    [] k = "constructor"                   -> ObjectConstructor
    [] OTHER                               -> NullColor

\* The rules in order; a rule's alternatives are phrases of consecutive
\* words (\s* between two words of an alternative is read as one space, and
\* no word of the vocabulary holds a keyword as a proper part).
NAME_HINTS ==
  << [rx  |-> {<<"rose">>, <<"rosé">>, <<"blush">>, <<"caitlyn", "rose">>},
      val |-> "ROSE"],
     [rx  |-> {<<"chenin">>, <<"sauvignon", "blanc">>, <<"chenin", "blanc">>,
               <<"blanc">>, <<"chardonnay">>, <<"viognier">>,
               <<"pinot", "grigio">>, <<"pinot", "gris">>, <<"brut">>,
               <<"sparkling", "brut">>, <<"white">>, <<"stoneflower">>},
      val |-> "WHITE"],
     [rx  |-> {<<"merlot">>, <<"shiraz">>, <<"syrah">>, <<"pinotage">>,
               <<"cabernet">>, <<"cab", "sauv">>, <<"malbec">>,
               <<"granite", "red">>, <<"red", "blend">>, <<"the", "blend">>,
               <<"sandveld">>, <<"paddock", "shiraz">>, <<"evanthuis">>,
               <<"gondolier">>, <<"san", "louis">>},
      val |-> "RED"],
     [rx  |-> {<<"jerepiko">>, <<"jeripigo">>, <<"port">>, <<"moscat">>,
               <<"moscato">>, <<"late", "harvest">>, <<"noble", "late">>},
      val |-> "DESSERT"] >>

\* The value of the first rule among hits, NullColor when there is none.
firstHint(hits) ==
  IF hits = {} THEN NullColor
  ELSE NAME_HINTS[CHOOSE i \in hits : \A j \in hits : i <= j].val

\* for (const h of NAME_HINTS) if (h.rx.test(name)) return h.val
hintOfWords(ws) ==
  firstHint({i \in 1..Len(NAME_HINTS) : HasAny(ws, NAME_HINTS[i].rx)})

\* The table's category for the trimmed token, else the first name hint.
colorOfToken(raw, productName) ==
  IF raw # "" /\ COLOR_MAP(Lower(raw)) # NullColor THEN COLOR_MAP(Lower(raw))
  ELSE hintOfWords(Words(productName))

\* input is String(input ?? ""): "" for a null or missing token.
normalizeColor(input, productName) == colorOfToken(Trim(input), productName)

-----------------------------------------------------------------------------
(* types/pricing: computeDisplayPrice and the PriceRowV3 schema.           *)

Infinity == <<1, 0>>

\* a / b on JavaScript numbers.
Quot(a, b) ==
  IF b[1] = 0
  THEN IF a[1] = 0 THEN NaN ELSE IF a[1] > 0 THEN Infinity ELSE <<-1, 0>>
  ELSE Rat(a[1] * b[2], a[2] * b[1])

computeDisplayPrice(r) ==
  Coalesce(r.inc_vat_per_unit,
  Coalesce(r.ex_vat_per_unit,
  Coalesce(IF Truthy(r.inc_vat_per_case) /\ Truthy(r.packed_case)
           THEN Quot(r.inc_vat_per_case, r.packed_case) ELSE Null,
  Coalesce(IF Truthy(r.ex_vat_per_case) /\ Truthy(r.packed_case)
           THEN Quot(r.ex_vat_per_case, r.packed_case) ELSE Null,
           Null))))

\* z.coerce.number(): Number(null) is 0.
CoerceNumber(x) == IF IsNull(x) THEN Rat(0, 1) ELSE x

ErrBrand   == "brand: Brand required"
ErrArea    == "area: Area required"
ErrColor   == "color: Invalid enum value"
ErrProduct == "product_name: Product required"
ErrCaseInt == "packed_case: Expected integer, received float"
ErrCaseMin == "packed_case: Case must be >= 1"
ErrSize    == "size_text: Size required"
ErrMin0(f) == f \o ": Number must be greater than or equal to 0"

\* z.coerce.number().min(0).nullable().optional() on a price field.
PriceIssues(f, x) ==
  IF IsNull(x) \/ RatGE(x, 0) THEN <<>> ELSE <<ErrMin0(f)>>

\* PriceRowV3 without the lower bound of packed_case.
PriceRowV3_noCaseMin(row) ==
     (IF row.brand = "" THEN <<ErrBrand>> ELSE <<>>)
  \o (IF row.area = "" THEN <<ErrArea>> ELSE <<>>)
  \o (IF row.color \in WineColorEnum \cup {NullColor} THEN <<>> ELSE <<ErrColor>>)
  \o (IF row.product_name = "" THEN <<ErrProduct>> ELSE <<>>)
  \o (IF IsInt(CoerceNumber(row.packed_case)) THEN <<>> ELSE <<ErrCaseInt>>)
  \o (IF row.size_text = "" THEN <<ErrSize>> ELSE <<>>)
  \o PriceIssues("ex_vat_per_case", row.ex_vat_per_case)
  \o PriceIssues("ex_vat_per_unit", row.ex_vat_per_unit)
  \o PriceIssues("inc_vat_per_case", row.inc_vat_per_case)
  \o PriceIssues("inc_vat_per_unit", row.inc_vat_per_unit)

\* PriceRowV3.safeParse(row): the messages `${path}: ${message}` of the
\* issues in schema order; the parse succeeds when there is none.
PriceRowV3(row) ==
     (IF row.brand = "" THEN <<ErrBrand>> ELSE <<>>)
  \o (IF row.area = "" THEN <<ErrArea>> ELSE <<>>)
  \o (IF row.color \in WineColorEnum \cup {NullColor} THEN <<>> ELSE <<ErrColor>>)
  \o (IF row.product_name = "" THEN <<ErrProduct>> ELSE <<>>)
  \o (IF IsInt(CoerceNumber(row.packed_case)) THEN <<>> ELSE <<ErrCaseInt>>)
  \o (IF RatGE(CoerceNumber(row.packed_case), 1) THEN <<>> ELSE <<ErrCaseMin>>)
  \o (IF row.size_text = "" THEN <<ErrSize>> ELSE <<>>)
  \o PriceIssues("ex_vat_per_case", row.ex_vat_per_case)
  \o PriceIssues("ex_vat_per_unit", row.ex_vat_per_unit)
  \o PriceIssues("inc_vat_per_case", row.inc_vat_per_case)
  \o PriceIssues("inc_vat_per_unit", row.inc_vat_per_unit)

-----------------------------------------------------------------------------
(* utils/excelParser: the header resolver and the row classifiers.         *)

\* s.toLowerCase().replace(/\s+/g, " ").replace(/[^a-z0-9 ]/g, "").trim()
\* of String(c ?? ""): the vocabulary's strings hold letters, digits and
\* single spaces only.
norm(c) == Lower(CellText(c))

CanonicalFields ==
  <<"brand", "area", "color", "product_name", "packed_case", "size_text",
    "ex_vat_per_case", "ex_vat_per_unit", "inc_vat_per_case",
    "inc_vat_per_unit">>

aliases(key) ==
  CASE key = "brand"            -> {"brand"}
    [] key = "area"             -> {"area", "region"}
    [] key = "color"            -> {"color", "colour", "wine color", "wine colour"}
    [] key = "product_name"     -> {"product", "product name", "name", "item"}
    [] key = "packed_case"      -> {"case", "cases", "packed", "pack"}
    [] key = "size_text"        -> {"size", "bottle size"}
    [] key = "ex_vat_per_case"  -> {"exv per case", "ex vat per case",
                                    "ex vat case", "exv case"}
    [] key = "ex_vat_per_unit"  -> {"exv per unit", "ex vat per unit",
                                    "ex vat unit", "exv unit"}
    [] key = "inc_vat_per_case" -> {"inv per case", "incl per case",
                                    "including per case", "incl vat per case",
                                    "inc per case"}
    [] key = "inc_vat_per_unit" -> {"inv per unit", "incl per unit",
                                    "including per unit", "incl vat per unit",
                                    "inc per unit"}

\* H.findIndex(h => options.includes(h)), 1-based; 0 when nothing matches.
findIndexOf(H, options) ==
  IF \A i \in 1..Len(H) : H[i] \notin options THEN 0
  ELSE CHOOSE i \in 1..Len(H) :
         H[i] \in options /\ \A j \in 1..(i - 1) : H[j] \notin options

\* The index built from the normalized header cells H.
headerIndexOf(H) ==
  [key \in {CanonicalFields[k] : k \in
              {n \in 1..Len(CanonicalFields) :
                 findIndexOf(H, aliases(CanonicalFields[n])) > 0}} |->
     findIndexOf(H, aliases(key))]

\* The columns (1-based) of the fields whose alias occurs in the header row;
\* a field without a match is not in the domain.
buildHeaderIndex(headerRow) ==
  headerIndexOf([i \in 1..Len(headerRow) |-> norm(headerRow[i])])

\* r[col.key], "" when the field has no column.
CellAt(r, col, key) ==
  IF key \in DOMAIN col /\ col[key] <= Len(r) THEN r[col[key]] ELSE S("")

\* How many of the 5 signal names the normalized row holds.
headerScore(row) ==
  Cardinality({k \in {"brand", "area", "product", "case", "size"} :
                 \E j \in 1..Len(row) : norm(row[j]) = k})

\* findHeaderRowFrom looking at every row of the sheet.
RECURSIVE findHeaderRowFrom_anyRow(_, _)
findHeaderRowFrom_anyRow(raw, i) ==
  IF i >= Len(raw) THEN 0
  ELSE IF headerScore(raw[i + 1]) >= 3 THEN i
  ELSE findHeaderRowFrom_anyRow(raw, i + 1)

\* The 0-based index of the header row: the first of the first 5 rows with
\* at least 3 of the 5 signal names, else 0.
RECURSIVE findHeaderRowFrom(_, _)
findHeaderRowFrom(raw, i) ==
  IF i >= Len(raw) \/ i >= 5 THEN 0
  ELSE IF headerScore(raw[i + 1]) >= 3 THEN i
  ELSE findHeaderRowFrom(raw, i + 1)

RECURSIVE ConcatWords(_)
ConcatWords(cells) ==
  IF cells = <<>> THEN <<>>
  ELSE Words(CellText(Head(cells))) \o ConcatWords(Tail(cells))

\* The category whose words the joined label holds.
sectionColorOf(joined) ==
  IF joined = <<>> THEN NullColor
  ELSE IF HasAny(joined, {<<"red">>, <<"rouge">>}) THEN "RED"
  ELSE IF HasAny(joined, {<<"white">>, <<"wit">>, <<"blanc">>}) THEN "WHITE"
  ELSE IF HasAny(joined, {<<"rose">>, <<"rosé">>, <<"blush">>}) THEN "ROSE"
  ELSE IF HasAny(joined, {<<"dessert">>, <<"desert">>, <<"sweet">>,
                          <<"noble", "late">>, <<"late", "harvest">>,
                          <<"jerepik">>, <<"jeripig">>, <<"moscat">>,
                          <<"moscato">>}) THEN "DESSERT"
  ELSE NullColor

\* The category of a row whose first three cells, joined and lower-cased,
\* hold one of the category words; NullColor when none does.
detectColorSection(cells) ==
  sectionColorOf(ConcatWords(SubSeq(cells, 1, IF Len(cells) < 3 THEN Len(cells) ELSE 3)))

\* restOfRow.filter(blank).length >= restOfRow.length * 0.7
mostlyEmpty(restOfRow) ==
  10 * Cardinality({i \in 1..Len(restOfRow) : IsBlankCell(restOfRow[i])})
    >= 7 * Len(restOfRow)

\* First cell non-blank and at least 70% of the other cells blank.
isSectionHeader(row) ==
  /\ Len(row) > 0
  /\ Trim(CellText(row[1])) # ""
  /\ mostlyEmpty(Tail(row))

-----------------------------------------------------------------------------
(* utils/excelParser: parseWorkbookV2.                                     *)

Undefined == "<undefined>"

WarnNoPrice == "No unit price available - check ex/inc VAT fields"
WarnNoColor == "Missing color - use Auto-fill Colors or set manually"

CountText(n) ==
  CASE n = 2 -> "2" [] n = 3 -> "3" [] n = 4 -> "4" [] n = 5 -> "5"
    [] n = 6 -> "6"

WarnDuplicate(n) ==
  "Duplicate found: " \o CountText(n) \o " rows with same product+size"

\* parseInt(String(c ?? "").replace(/\D+/g, "")) || 0
parsePackedCase(c) ==
  LET digits == SelectSeq(Chars(CellText(c)), IsDigit)
  IN  Rat(DigitsValue(digits), 1)

\* sectionRow marking the header row valid.
sectionRow_valid(label, fileName, actualRowIndex) ==
  [brand |-> label, area |-> "", color |-> NullColor, product_name |-> label,
   packed_case |-> Rat(0, 1), size_text |-> "",
   ex_vat_per_case |-> Null, ex_vat_per_unit |-> Null,
   inc_vat_per_case |-> Null, inc_vat_per_unit |-> Null,
   source_file |-> fileName, row_number |-> actualRowIndex,
   isValid |-> TRUE, isSectionHeader |-> TRUE,
   errors |-> <<>>, warnings |-> <<>>,
   originalRowIndex |-> actualRowIndex, display_price |-> Null,
   duplicateKey |-> Undefined]

\* The ParsedRow pushed for a brand/section header row.
sectionRow(label, fileName, actualRowIndex) ==
  [brand |-> label, area |-> "", color |-> NullColor, product_name |-> label,
   packed_case |-> Rat(0, 1), size_text |-> "",
   ex_vat_per_case |-> Null, ex_vat_per_unit |-> Null,
   inc_vat_per_case |-> Null, inc_vat_per_unit |-> Null,
   source_file |-> fileName, row_number |-> actualRowIndex,
   isValid |-> FALSE, isSectionHeader |-> TRUE,
   errors |-> <<>>, warnings |-> <<>>,
   originalRowIndex |-> actualRowIndex, display_price |-> Null,
   duplicateKey |-> Undefined]

\* The brand of a product row.
productBrand(currentBrand, r, col) ==
  IF currentBrand # "" THEN currentBrand
  ELSE Trim(CellText(CellAt(r, col, "brand")))

\* normalizeColor(rawColor, product) ?? activeColor
colorOr(c, activeColor) == IF c # NullColor THEN c ELSE activeColor

\* The colour of a product row.
productColor(activeColor, r, col, product) ==
  colorOr(normalizeColor(IF "color" \in DOMAIN col
                         THEN CellText(CellAt(r, col, "color")) ELSE "",
                         product),
          activeColor)

\* rowData of a product row, given its trimmed product cell.
rowDataOf(currentBrand, activeColor, r, col, fileName, actualRowIndex, product) ==
  [brand |-> productBrand(currentBrand, r, col),
   area |-> Trim(CellText(CellAt(r, col, "area"))),
   color |-> productColor(activeColor, r, col, product),
   product_name |-> product,
   packed_case |-> parsePackedCase(CellAt(r, col, "packed_case")),
   size_text |-> Trim(CellText(CellAt(r, col, "size_text"))),
   ex_vat_per_case |-> parseLocaleNumber(CellAt(r, col, "ex_vat_per_case")),
   ex_vat_per_unit |-> parseLocaleNumber(CellAt(r, col, "ex_vat_per_unit")),
   inc_vat_per_case |-> parseLocaleNumber(CellAt(r, col, "inc_vat_per_case")),
   inc_vat_per_unit |-> parseLocaleNumber(CellAt(r, col, "inc_vat_per_unit")),
   source_file |-> fileName, row_number |-> actualRowIndex]

\* The warnings of a row with the display price and the colour.
priceAndColorWarnings(display, color) ==
     (IF IsNull(display) THEN <<WarnNoPrice>> ELSE <<>>)
  \o (IF color \in {NullColor, ""} THEN <<WarnNoColor>> ELSE <<>>)

\* parsedRow: rowData with its display price, the schema's issues and the
\* warnings.
parsedRowOf(rowData, display, issues) ==
  [brand |-> rowData.brand, area |-> rowData.area, color |-> rowData.color,
   product_name |-> rowData.product_name,
   packed_case |-> rowData.packed_case, size_text |-> rowData.size_text,
   ex_vat_per_case |-> rowData.ex_vat_per_case,
   ex_vat_per_unit |-> rowData.ex_vat_per_unit,
   inc_vat_per_case |-> rowData.inc_vat_per_case,
   inc_vat_per_unit |-> rowData.inc_vat_per_unit,
   source_file |-> rowData.source_file, row_number |-> rowData.row_number,
   isValid |-> issues = <<>>, isSectionHeader |-> FALSE,
   errors |-> issues,
   warnings |-> priceAndColorWarnings(display, rowData.color),
   originalRowIndex |-> rowData.row_number, display_price |-> display,
   duplicateKey |-> Undefined]

validatedRow(rowData) ==
  parsedRowOf(rowData, computeDisplayPrice(rowData), PriceRowV3(rowData))

\* The ParsedRow pushed for a product row (steps 2 to the push of the loop).
productRow(currentBrand, activeColor, r, col, fileName, actualRowIndex) ==
  validatedRow(rowDataOf(currentBrand, activeColor, r, col, fileName,
                         actualRowIndex,
                         Trim(CellText(CellAt(r, col, "product_name")))))

\* classifyOther skipping a row whose product cell is blank.
classifyOther_dropBlankProduct(st, r, actualRowIndex, col, fileName) ==
  IF isSectionHeader(r)
  THEN [st EXCEPT !.currentBrand = Trim(CellText(r[1])),
                  !.sectionHeaderCount = @ + 1,
                  !.parsedRows = Append(@, sectionRow(Trim(CellText(r[1])),
                                                      fileName, actualRowIndex))]
  ELSE IF \A j \in 1..Len(r) : IsFalsyOrBlankCell(r[j])
  THEN st
  ELSE IF Trim(CellText(CellAt(r, col, "product_name"))) = ""
  THEN st
  ELSE [st EXCEPT !.parsedRows =
          Append(@, productRow(st.currentBrand, st.activeColor, r, col,
                               fileName, actualRowIndex))]

\* The loop's state after a row that is no colour-section row.
classifyOther(st, r, actualRowIndex, col, fileName) ==
  IF isSectionHeader(r)
  THEN [st EXCEPT !.currentBrand = Trim(CellText(r[1])),
                  !.sectionHeaderCount = @ + 1,
                  !.parsedRows = Append(@, sectionRow(Trim(CellText(r[1])),
                                                      fileName, actualRowIndex))]
  ELSE IF \A j \in 1..Len(r) : IsFalsyOrBlankCell(r[j])
  THEN st
  ELSE [st EXCEPT !.parsedRows =
          Append(@, productRow(st.currentBrand, st.activeColor, r, col,
                               fileName, actualRowIndex))]

\* The loop's state after a row, given detectColorSection's answer.
classifyWith(st, r, sectionColor, actualRowIndex, col, fileName) ==
  IF sectionColor # NullColor
  THEN [st EXCEPT !.activeColor = sectionColor]
  ELSE classifyOther(st, r, actualRowIndex, col, fileName)

\* classifyRow numbering the rows from the first data row, whatever the
\* header row.
classifyRow_fromDataRows(st, r, i, headerRowIndex, col, fileName) ==
  classifyWith(st, r, detectColorSection(r), i + 2, col, fileName)

\* One iteration of dataRows.forEach on the loop's state st =
\* [parsedRows, sectionHeaderCount, currentBrand, activeColor];
\* i is the 0-based index of r in dataRows.
classifyRow(st, r, i, headerRowIndex, col, fileName) ==
  classifyWith(st, r, detectColorSection(r), headerRowIndex + i + 2, col, fileName)

\* The loop's state after the first n data rows.
RECURSIVE classifyRows(_, _, _, _, _)
classifyRows(dataRows, n, headerRowIndex, col, fileName) ==
  IF n = 0
  THEN [parsedRows |-> <<>>, sectionHeaderCount |-> 0,
        currentBrand |-> "", activeColor |-> NullColor]
  ELSE classifyRow(classifyRows(dataRows, n - 1, headerRowIndex, col, fileName),
                   dataRows[n], n - 1, headerRowIndex, col, fileName)

\* The key of the duplicate check.
duplicateKeyOf(row) ==
  IF row.brand # ""
  THEN row.brand \o "|" \o row.product_name \o "|" \o row.size_text
  ELSE row.product_name \o "|" \o row.size_text

\* Whether the duplicate check groups the row.
inDuplicateMap(row) == ~row.isSectionHeader /\ row.product_name # ""

\* The indices of the grouped rows with the key, in row order.
rowsWithKey(rows, key) ==
  LET has(i) == inDuplicateMap(rows[i]) /\ duplicateKeyOf(rows[i]) = key
  IN  SelectSeq([i \in 1..Len(rows) |-> i], has)

\* duplicateMap: for each key the indices of its rows, in row order.
duplicateMap(rows) ==
  [key \in {duplicateKeyOf(rows[i]) :
              i \in {j \in 1..Len(rows) : inDuplicateMap(rows[j])}} |->
     rowsWithKey(rows, key)]

\* markedRow warning only groups of more than two rows.
markedRow_moreThanTwo(row, key, n) ==
  [row EXCEPT !.duplicateKey = key,
              !.warnings = IF n > 2 THEN Append(@, WarnDuplicate(n)) ELSE @]

\* A grouped row with its key, and the warning when its group has n > 1 rows.
markedRow(row, key, n) ==
  [row EXCEPT !.duplicateKey = key,
              !.warnings = IF n > 1 THEN Append(@, WarnDuplicate(n)) ELSE @]

markWith(rows, map) ==
  [i \in 1..Len(rows) |->
     IF ~inDuplicateMap(rows[i]) THEN rows[i]
     ELSE markedRow(rows[i], duplicateKeyOf(rows[i]),
                    Len(map[duplicateKeyOf(rows[i])]))]

\* The rows after the duplicate check: every grouped row gets its key, and
\* every row of a group of more than one gets the warning.
markDuplicates(rows) == markWith(rows, duplicateMap(rows))

\* rows.flatMap(row => row[field])
RECURSIVE flatMap(_, _)
flatMap(rows, field) ==
  IF rows = <<>> THEN <<>>
  ELSE Head(rows)[field] \o flatMap(Tail(rows), field)

countValid(rows) ==
  Cardinality({i \in 1..Len(rows) : rows[i].isValid /\ ~rows[i].isSectionHeader})

countInvalid(rows) ==
  Cardinality({i \in 1..Len(rows) : ~rows[i].isValid /\ ~rows[i].isSectionHeader})

emptyResult ==
  [rows |-> <<>>, totalRows |-> 0, validRows |-> 0, invalidRows |-> 0,
   sectionHeaders |-> 0, errors |-> <<>>, warnings |-> <<>>]

\* The ParseResult returned for the parsed rows.
resultOf(parsedRows, totalRows, sectionHeaderCount) ==
  [rows |-> parsedRows,
   totalRows |-> totalRows,
   validRows |-> countValid(parsedRows),
   invalidRows |-> countInvalid(parsedRows),
   sectionHeaders |-> sectionHeaderCount,
   errors |-> flatMap(parsedRows, "errors"),
   warnings |-> flatMap(parsedRows, "warnings")]

\* The duplicate check and the summary on the loop's final state.
finishParse(st, totalRows) ==
  resultOf(markDuplicates(st.parsedRows), totalRows, st.sectionHeaderCount)

\* The pass over the rows below the header row.
parseBelow(raw, headerRowIndex, fileName) ==
  finishParse(classifyRows(SubSeq(raw, headerRowIndex + 2, Len(raw)),
                           Len(raw) - headerRowIndex - 1, headerRowIndex,
                           buildHeaderIndex(raw[headerRowIndex + 1]), fileName),
              Len(raw) - headerRowIndex - 1)

\* file is [name, raw]: the file's name and the decoded first sheet.
parseWorkbookV2(file) ==
  IF Len(file.raw) = 0 THEN emptyResult
  ELSE parseBelow(file.raw, findHeaderRowFrom(file.raw, 0), file.name)

-----------------------------------------------------------------------------
(* components/PricingUpload/PreviewTable and pages/PricingUpload: the      *)
(* review session.                                                         *)

\* null for selectedFile and parseResult.
Nothing == [nothing |-> TRUE]

\* The number of leading decimal digits of body.
leadingDigits(body) ==
  IF \A i \in 1..Len(body) : IsDigit(body[i]) THEN Len(body)
  ELSE (CHOOSE i \in 1..Len(body) :
          ~IsDigit(body[i]) /\ \A j \in 1..(i - 1) : IsDigit(body[j])) - 1

\* The integer of the first n digits of body, NaN when there is none.
intOf(body, n, negative) ==
  IF n = 0 THEN NaN
  ELSE Rat((IF negative THEN -1 ELSE 1) * DigitsValue(SubSeq(body, 1, n)), 1)

jsParseIntChars(cs) ==
  IF cs # <<>> /\ cs[1] \in {"+", "-"}
  THEN intOf(Tail(cs), leadingDigits(Tail(cs)), cs[1] = "-")
  ELSE intOf(cs, leadingDigits(cs), FALSE)

\* parseInt(value) of a decimal string: the sign and the leading digits.
jsParseInt(value) == jsParseIntChars(Chars(value))

\* parseFloat(value.replace(/[$,]/g, '')) of the value of a number input,
\* which is a decimal literal.
jsParseFloat(value) ==
  LET plain(c) == c \notin {"$", ","}
  IN  JSNumber(SelectSeq(Chars(value), plain))

NumericFields ==
  {"packed_case", "ex_vat_per_case", "ex_vat_per_unit", "inc_vat_per_case",
   "inc_vat_per_unit"}

\* The value handleCellEdit hands to onUpdateRow.
parsedValue(field, value) ==
  IF field \in NumericFields
  THEN IF field = "packed_case"
       THEN IF value # "" THEN jsParseInt(value) ELSE Null
       ELSE IF value # "" THEN jsParseFloat(value) ELSE Null
  ELSE value

\* The indices (in rows) of the rows the table shows under the filters.
filteredRows(rows, selectedBrand, selectedColor) ==
  LET shown(i) ==
        /\ ~(selectedBrand # "" /\ rows[i].brand # selectedBrand
             /\ ~rows[i].isSectionHeader)
        /\ ~(selectedColor # "" /\ selectedColor # "All"
             /\ rows[i].color # selectedColor /\ ~rows[i].isSectionHeader)
  IN  SelectSeq([i \in 1..Len(rows) |-> i], shown)

\* revalidated leaving the display price as it was.
revalidated_staleDisplay(row, issues, display) ==
  [row EXCEPT
     !.errors = issues,
     !.isValid = (issues = <<>>),
     !.warnings = priceAndColorWarnings(display, row.color)]

\* The row with the outcome of the schema, the display price and the
\* warnings handleUpdateRow rebuilds.
revalidated(row, issues, display) ==
  [row EXCEPT
     !.errors = issues,
     !.isValid = (issues = <<>>),
     !.display_price = display,
     !.warnings = priceAndColorWarnings(display, row.color)]

\* The row after handleUpdateRow's re-validation of a product row.
revalidate(row) == revalidated(row, PriceRowV3(row), computeDisplayPrice(row))

\* The edited row: re-validated unless it is a section header.
updatedRow(edited) ==
  IF ~edited.isSectionHeader THEN revalidate(edited) ELSE edited

\* setParseResult({...parseResult, rows, validRows, invalidRows, errors,
\* warnings}) of handleUpdateRow.
withUpdatedRows(result, updatedRows) ==
  [result EXCEPT
     !.rows = updatedRows,
     !.validRows = countValid(updatedRows),
     !.invalidRows = countInvalid(updatedRows),
     !.errors = flatMap(updatedRows, "errors"),
     !.warnings = flatMap(updatedRows, "warnings")]

\* handleUpdateRow keeping only the section headers and the valid rows.
keepsRow(row) == row.isSectionHeader \/ row.isValid
handleUpdateRow_dropInvalid(result, index, field, value) ==
  withUpdatedRows(result,
    SelectSeq([result.rows EXCEPT ![index] = updatedRow([@ EXCEPT ![field] = value])],
              keepsRow))

\* The ParseResult handleUpdateRow(index, field, value) sets.
handleUpdateRow(result, index, field, value) ==
  withUpdatedRows(result,
    [result.rows EXCEPT ![index] = updatedRow([@ EXCEPT ![field] = value])])

\* row.warnings.filter(w => !w.includes('Missing color'))
withoutMissingColor(warnings) ==
  LET keep(w) == w # WarnNoColor IN SelectSeq(warnings, keep)

\* withInferredColor leaving the warnings as they were.
withInferredColor_keepWarnings(row, inferredColor) ==
  IF inferredColor # NullColor
  THEN [row EXCEPT !.color = inferredColor]
  ELSE row

\* The row with the inferred colour, when there is one.
withInferredColor(row, inferredColor) ==
  IF inferredColor # NullColor
  THEN [row EXCEPT !.color = inferredColor,
                   !.warnings = withoutMissingColor(@)]
  ELSE row

\* The row handleAutoFillColors maps a row to.
autoFillRow(row) ==
  IF ~row.isSectionHeader /\ row.color \in {NullColor, ""} /\ row.product_name # ""
  THEN withInferredColor(row, normalizeColor("", row.product_name))
  ELSE row

\* withAutoFilledRows leaving the batch's warnings as they were.
withAutoFilledRows_staleWarnings(result, updatedRows) ==
  [result EXCEPT
     !.rows = updatedRows,
     !.validRows = countValid(updatedRows),
     !.invalidRows = countInvalid(updatedRows)]

\* setParseResult({...parseResult, rows, validRows, invalidRows, warnings})
\* of handleAutoFillColors.
withAutoFilledRows(result, updatedRows) ==
  [result EXCEPT
     !.rows = updatedRows,
     !.validRows = countValid(updatedRows),
     !.invalidRows = countInvalid(updatedRows),
     !.warnings = flatMap(updatedRows, "warnings")]

\* The ParseResult handleAutoFillColors sets.
handleAutoFillColors(result) ==
  withAutoFilledRows(result,
    [i \in 1..Len(result.rows) |-> autoFillRow(result.rows[i])])

FailedToParse == "Failed to parse file: Error"

\* failedResult without the top-level error.
failedResult_noError ==
  [rows |-> <<>>, totalRows |-> 0, validRows |-> 0, invalidRows |-> 0,
   sectionHeaders |-> 0, errors |-> <<>>, warnings |-> <<>>]

\* The ParseResult handleFileSelect sets when the decoding throws.
failedResult ==
  [rows |-> <<>>, totalRows |-> 0, validRows |-> 0, invalidRows |-> 0,
   sectionHeaders |-> 0, errors |-> <<FailedToParse>>, warnings |-> <<>>]

\* The ParseResult handleFileSelect sets for the file: try / catch around
\* the parse.
fileSelectResult(file) ==
  IF file.decodes THEN parseWorkbookV2(file) ELSE failedResult

-----------------------------------------------------------------------------
(* The import batcher: ImportActions and the offline queue.                *)

\* rows.filter(row => row.isValid && !row.isSectionHeader)
validRowsOf(rows) ==
  LET importable(row) == row.isValid /\ ~row.isSectionHeader
  IN  SelectSeq(rows, importable)

\* Rows per upsert call.
chunkSize == 250

\* array.slice(from, to) for 0 <= from <= to.
slice(array, from, to) ==
  SubSeq(array, from + 1, IF to < Len(array) THEN to ELSE Len(array))

\* chunksFrom stepping one row short of chunkSize.
RECURSIVE chunksFrom_overlap(_, _)
chunksFrom_overlap(validRows, from) ==
  IF from < Len(validRows)
  THEN <<slice(validRows, from, from + chunkSize)>>
         \o chunksFrom_overlap(validRows, from + chunkSize - 1)
  ELSE <<>>

\* for (let i = from; i < validRows.length; i += chunkSize)
\*   chunks.push(validRows.slice(i, i + chunkSize))
RECURSIVE chunksFrom(_, _)
chunksFrom(validRows, from) ==
  IF from < Len(validRows)
  THEN <<slice(validRows, from, from + chunkSize)>>
         \o chunksFrom(validRows, from + chunkSize)
  ELSE <<>>

\* The chunks of a run; chunk i of the source (from 0) is chunksOf(..)[i + 1].
chunksOf(validRows) == chunksFrom(validRows, 0)

\* text || null; null among texts is NullColor's marker.
textOrNull(text) == IF text \in {"", NullColor} THEN NullColor ELSE text

\* number || null
numberOrNull(x) == IF Truthy(x) THEN x ELSE Null

\* baseRow: the row as the upsert call carries it.
mappedRow(row) ==
  [brand |-> textOrNull(row.brand), area |-> textOrNull(row.area),
   color |-> textOrNull(row.color), product_name |-> row.product_name,
   packed_case |-> row.packed_case, size_text |-> textOrNull(row.size_text),
   ex_vat_per_case |-> numberOrNull(row.ex_vat_per_case),
   ex_vat_per_unit |-> numberOrNull(row.ex_vat_per_unit),
   inc_vat_per_case |-> numberOrNull(row.inc_vat_per_case),
   inc_vat_per_unit |-> numberOrNull(row.inc_vat_per_unit),
   source_file |-> textOrNull(row.source_file),
   row_number |-> IF row.row_number # 0 THEN row.row_number ELSE Null]

mappedRows(chunk) == [k \in 1..Len(chunk) |-> mappedRow(chunk[k])]

\* The iterations whose upsert call all at once starts with the first.
upsertsAt_allAtOnce(iteration, count) ==
  IF iteration = 0 THEN [k \in 1..count |-> k - 1] ELSE <<>>

\* The chunks whose upsert call iteration i of the loop issues before it
\* awaits: its own.
upsertsAt(iteration, count) == <<iteration>>

\* The calls on the network after the upserts of the chunks are issued.
submitted(sent, chunks, upserts) ==
  sent \o [k \in 1..Len(upserts) |->
            [rows |-> mappedRows(chunks[upserts[k] + 1]), result |-> "pending"]]

\* The ways an upsert call ends: no error, an error in the response, a
\* rejected promise.
UpsertOutcomes == {"ok", "error", "throw"}
UpsertErrorMessage == "upsert_product_prices failed"
ThrownMessage == "Import failed: TypeError: Failed to fetch"

\* chunkErrors with one entry for the whole chunk.
chunkErrors_firstRowOnly(chunk, message) ==
  <<[row |-> chunk[1].originalRowIndex, product |-> chunk[1].product_name,
     error |-> message]>>

\* chunk.forEach(row => errors.push({row, product, error}))
chunkErrors(chunk, message) ==
  [k \in 1..Len(chunk) |->
     [row |-> chunk[k].originalRowIndex, product |-> chunk[k].product_name,
      error |-> message]]

\* imported and errors after the call of the chunk has ended.
afterUpsert(count, failures, chunk, outcome) ==
  CASE outcome = "ok" ->
         [imported |-> count + Len(chunk), errors |-> failures]
    [] outcome = "error" ->
         [imported |-> count,
          errors |-> failures \o chunkErrors(chunk, UpsertErrorMessage)]
    [] outcome = "throw" ->
         [imported |-> count,
          errors |-> failures \o chunkErrors(chunk, ThrownMessage)]

\* The values of progress; a message is the sequence of its parts.
idleProgress ==
  [current |-> 0, total |-> 0, status |-> "idle", message |-> <<"">>]

startingProgress(total) ==
  [current |-> 0, total |-> total, status |-> "importing",
   message |-> <<"Starting import...">>]

importingProgress(iteration, count, done, total) ==
  [current |-> done, total |-> total, status |-> "importing",
   message |-> <<"Importing chunk ", iteration + 1, " of ", count, "...">>]

queuedProgress(total) ==
  [current |-> total, total |-> total, status |-> "complete",
   message |-> <<"Queued for import when online">>]

\* completeProgress reporting a run with failed chunks as an error.
completeProgress_errorOnFailure(done, total) ==
  [current |-> done, total |-> total,
   status |-> IF done < total THEN "error" ELSE "complete",
   message |-> <<"Import complete: ", done, " products imported">>]

completeProgress(done, total) ==
  [current |-> done, total |-> total, status |-> "complete",
   message |-> <<"Import complete: ", done, " products imported">>]

QueueErrorMessage == "Import failed: Error"

errorProgress(total) ==
  [current |-> 0, total |-> total, status |-> "error",
   message |-> <<QueueErrorMessage>>]

\* importResult reporting no row as skipped.
importResult_noneSkipped(done, total, failures) ==
  [imported |-> done, skipped |-> 0, errors |-> failures]

\* The ImportResult of a run on line.
importResult(done, total, failures) ==
  [imported |-> done, skipped |-> total - done, errors |-> failures]

\* The ImportResult of a queued run.
queuedResult == [imported |-> 0, skipped |-> 0, errors |-> <<>>]

QUEUE_PREFIX == "pricing_import_"

\* The entry queueImport(rows, filename) stores at the clock reading with
\* the random suffix; its id is the key of the store.
queueImport(rows, filename, now, suffix) ==
  [id |-> <<QUEUE_PREFIX, now, suffix>>, rows |-> rows, filename |-> filename,
   timestamp |-> now]

\* set(id, entry) of the key-value store.
idbSet(store, entry) == {e \in store : e.id # entry.id} \cup {entry}

\* key.startsWith(QUEUE_PREFIX).
startsWithPrefix(key) == key[1] = QUEUE_PREFIX

\* The place of a random suffix among the suffixes in string order.
suffixRank(suffix) == CASE suffix = "a" -> 1 [] suffix = "b" -> 2

\* The order of the keys of the store, which is the order of the strings
\* prefix + clock reading + '_' + suffix: by the clock reading (readings of
\* one run have the same number of digits), then by the suffix.
keyBefore(a, b) ==
  \/ a[2] < b[2]
  \/ a[2] = b[2] /\ suffixRank(a[3]) < suffixRank(b[3])

firstKey(ids) == CHOOSE k \in ids : \A l \in ids : l = k \/ keyBefore(k, l)

\* keys() of the key-value store: the keys in key order.
RECURSIVE keysInOrder(_)
keysInOrder(ids) ==
  IF ids = {} THEN <<>>
  ELSE <<firstKey(ids)>> \o keysInOrder(ids \ {firstKey(ids)})

idbKeys(store) == keysInOrder({e.id : e \in store})

\* get(key) of the key-value store.
idbGet(store, key) == CHOOSE e \in store : e.id = key

\* The number of entries of the sorted list that stay before the entry:
\* the sort by timestamp is stable.
placeOf(sorted, entry) ==
  Cardinality({i \in 1..Len(sorted) : sorted[i].timestamp <= entry.timestamp})

insertAt(sorted, entry, place) ==
  SubSeq(sorted, 1, place) \o <<entry>> \o SubSeq(sorted, place + 1, Len(sorted))

\* imports.sort((a, b) => a.timestamp - b.timestamp).
RECURSIVE sortByTimestamp(_)
sortByTimestamp(imports) ==
  IF imports = <<>> THEN <<>>
  ELSE insertAt(sortByTimestamp(SubSeq(imports, 1, Len(imports) - 1)),
                imports[Len(imports)],
                placeOf(sortByTimestamp(SubSeq(imports, 1, Len(imports) - 1)),
                        imports[Len(imports)]))

entriesOf(store, queueKeys) ==
  [i \in 1..Len(queueKeys) |-> idbGet(store, queueKeys[i])]

\* getQueuedImports(): the entries under the keys with the prefix, sorted by
\* timestamp.
getQueuedImports(store) ==
  sortByTimestamp(entriesOf(store, SelectSeq(idbKeys(store), startsWithPrefix)))

\* removeQueuedImport(id): del(id).
removeQueuedImport(store, id) == {e \in store : e.id # id}

\* clearQueue(): del of every key with the prefix.
clearQueue(store) == {e \in store : ~startsWithPrefix(e.id)}

-----------------------------------------------------------------------------
(* The inputs the specifications draw.                                     *)

FileName == "pricing.xlsx"

\* The header row generateTemplate writes.
TemplateHeader ==
  <<S("Brand"), S("Area"), S("Product"), S("Case"), S("Size"), S("Color"),
    S("Exv Per case"), S("Exv Per unit"), S("Inv Per case"), S("Inv Per unit")>>

E == S("")

\* A colour-section row.
RowWhiteWine == <<S("White Wine"), E, E, E, E, E, E, E, E, E>>
\* Two brand/section header rows.
RowKlawerHeader == <<S("KLAWER CELLARS"), E, E, E, E, E, E, E, E, E>>
RowBoschendalHeader == <<S("BOSCHENDAL ESTATE"), E, E, E, E, E, E, E, E, E>>
\* An empty row.
RowBlank == <<E, E, E, E, E, E, E, E, E, E>>
\* A complete product row with its own brand and an explicit colour.
RowChardonnay ==
  <<S("Klawer Cellars"), S("Western Cape"), S("Chardonnay"), N(12), S("750ml"),
    S("RED"), S("2 288,23"), S("190,69"), E, E>>
\* A product row without brand and colour, with a name that hints no colour.
RowTinta ==
  <<E, S("Western Cape"), S("Tinta Barocca"), N(6), S("750ml"), E, E, E, N(24), E>>
\* A product row without brand, case and prices, with an unknown colour token
\* and a name that hints RED.
RowMerlot ==
  <<E, S("Western Cape"), S("Merlot"), E, S("750ml"), S("Purple"), E, E, E, E>>
\* A product row whose name holds a category word.
RowSauvignonBlanc ==
  <<S("Boschendal"), S("Stellenbosch"), S("Sauvignon Blanc"), N(6), S("750ml"),
    S("WHITE"), E, E, N(24), E>>
\* A row with data but no product name, and a negative price.
RowNoProduct ==
  <<S("Klawer Cellars"), S("Western Cape"), E, N(12), S("750ml"), E, E, N(-5), E, E>>
\* A row whose only content is the number 0 in the case column.
RowZeroCase == <<E, E, E, N(0), E, E, E, E, E, E>>

ParsePool ==
  {RowWhiteWine, RowKlawerHeader, RowBoschendalHeader, RowBlank, RowChardonnay,
   RowTinta, RowMerlot, RowSauvignonBlanc, RowNoProduct, RowZeroCase}

ReviewPool == {RowKlawerHeader, RowChardonnay, RowTinta}

\* The files whose sheet is the template header followed by at most
\* maxRows rows of the pool.
FilesOf(pool, maxRows) ==
  {[name |-> FileName, raw |-> <<TemplateHeader>> \o data, decodes |-> TRUE] :
     data \in UNION {[1..n -> pool] : n \in 0..maxRows}}

\* A file the workbook reader throws on.
CorruptFile == [name |-> FileName, raw |-> <<>>, decodes |-> FALSE]

\* The files the review session and the parse-only runs upload.
ReviewFiles == FilesOf(ReviewPool, MaxReviewRows) \cup {CorruptFile}
ParseFiles == FilesOf(ParsePool, MaxRows) \cup {CorruptFile}

\* A header row with 2 of the 5 signal names, its columns under aliases.
WeakHeader ==
  <<S("Brand"), S("Region"), S("Item"), S("Cases"), S("Size"), S("Colour"),
    S("Exv Per case"), S("Exv Per unit"), S("Inv Per case"), S("Inv Per unit")>>
\* The same with second columns for the product and for the area to the
\* right: exactly 3 of the 5 signal names.
AliasHeader == WeakHeader \o <<S("Name"), S("Area")>>

\* The k rows above the header row of a sheet: a title, blank rows, a
\* product line and a category line, in turn.
LeadPattern == <<RowKlawerHeader, RowBlank, RowChardonnay, RowBlank, RowWhiteWine>>
leadRows(k) == [i \in 1..k |-> LeadPattern[((i - 1) % Len(LeadPattern)) + 1]]

\* The files with up to MaxLead rows above a header row of the headers and
\* a sheet's data below it.
FilesUnder(headers, sheets) ==
  {[name |-> FileName, raw |-> leadRows(k) \o <<header>> \o data,
    decodes |-> TRUE] :
     k \in 0..MaxLead, header \in headers, data \in sheets}

\* The files of the header runs: every header, at most 2 rows of data.
HeaderFiles ==
  FilesUnder({TemplateHeader, AliasHeader, WeakHeader},
             UNION {[1..n -> ReviewPool] : n \in 0..2})

\* The files of the runs from upload to import: up to MaxLead rows above
\* the template header, and 1..MaxOffsetRows rows of data below it.
OffsetPool == {RowChardonnay, RowBlank, RowKlawerHeader}
OffsetFiles ==
  FilesUnder({TemplateHeader},
             UNION {[1..n -> OffsetPool] : n \in 1..MaxOffsetRows})

\* The strings a user types into a cell of the field.
EditValues(field) ==
  CASE field = "brand"            -> {"", "Klawer Cellars"}
    [] field = "area"             -> {""}
    [] field = "product_name"     -> {"", "Merlot"}
    [] field = "size_text"        -> {""}
    [] field = "color"            -> {"", "RED"}
    [] field = "packed_case"      -> {"", "0", "12"}
    [] field = "ex_vat_per_case"  -> {"24"}
    [] field = "ex_vat_per_unit"  -> {"", "-5"}
    [] field = "inc_vat_per_case" -> {"", "0"}
    [] field = "inc_vat_per_unit" -> {"", "24"}

EditableFields == {CanonicalFields[k] : k \in 1..Len(CanonicalFields)}

\* The brand selector and the colour filter the user has set when
\* editing a cell: no filter, or one brand and one colour.
Filters ==
  {[selectedBrand |-> "", selectedColor |-> "All"],
   [selectedBrand |-> "Klawer Cellars", selectedColor |-> "RED"]}

\* A parse result with a section-header row, an invalid row and a valid
\* row, from which the large batches are made.
SampleRows ==
  parseWorkbookV2([name |-> FileName, decodes |-> TRUE,
                   raw |-> <<TemplateHeader, RowKlawerHeader, RowNoProduct,
                             RowChardonnay>>]).rows

\* The row as the parse of sheet row k gives it.
atSheetRow(row, k) == [row EXCEPT !.row_number = k, !.originalRowIndex = k]

\* The rows of a sheet with a section-header row, an invalid row, n valid
\* rows and a last invalid row.
largeBatch(n) ==
  <<SampleRows[1], SampleRows[2]>>
    \o [k \in 1..n |-> atSheetRow(SampleRows[3], k + 3)]
    \o <<atSheetRow(SampleRows[2], n + 4)>>

\* The numbers of valid rows of the large batches: up to MaxChunks chunks,
\* the last one partial or full.
LargeCounts ==
  {chunkSize * k + last : k \in 0..(MaxChunks - 1), last \in {100, chunkSize}}

\* The rows ImportActions is rendered with: the rows of the review files
\* that have a valid row, and the large batches.
ImportBatches ==
  {parseWorkbookV2(file).rows :
     file \in {f \in ReviewFiles :
                 f.decodes /\ parseWorkbookV2(f).validRows > 0}}
  \cup {largeBatch(n) : n \in LargeCounts}

\* The clock readings and random suffixes of the queue ids of the runs.
ImportClock == {1, 2}
ImportSuffixes == {"a"}

\* The batches, clock readings and random suffixes of the queue calls.
QueueBatches == {<<SampleRows[3]>>, <<SampleRows[3], atSheetRow(SampleRows[3], 5)>>}
QueueClock == {1, 2}
QueueSuffixes == {"a", "b"}

\* The strings parseLocaleNumber is applied to on its own, as sequences of
\* characters: every string of at most MaxText characters over digits,
\* both separators, a space, a non-breaking space, a currency letter and a
\* sign, each one after the string it extends by a character, and the
\* formatted prices of the vocabulary.
LocaleChars == {"1", "5", ",", ".", " ", NBSP, "R", "-"}
LocaleTexts(last) ==
  {Append(last, c) : c \in {d \in LocaleChars : Len(last) < MaxText}}
    \cup {Chars("190,69"), Chars("2,288.23"), Chars("2 288,23"), Chars("n/a")}

\* The colour tokens and product names normalizeColor is applied to on its
\* own: no token, whitespace, the codes, synonyms in either case, a word
\* that is no colour, and a word that is a key of every object.
ColorTokens ==
  {"", " ", "RED", "WHITE", "ROSE", "DESSERT", "red", "Rouge", "blanc", "wit",
   "Rosé", "blush", "desert", "Sweet", "Purple", "constructor"}
ProductNames ==
  {"", "Merlot", "Chardonnay", "Tinta Barocca", "Sauvignon Blanc",
   "Late Harvest", "Brut Rosé"}

\* The price fields computeDisplayPrice is applied to on its own.
PriceValues == {Null, Rat(0, 1), Rat(24, 1), Rat(36, 1)}
CaseValues == {Null, Rat(0, 1), Rat(6, 1), Rat(12, 1)}

-----------------------------------------------------------------------------
(* The state machine.                                                      *)

Init ==
  /\ selectedFile = Nothing
  /\ parseResult = Nothing
  /\ isProcessing = FALSE
  /\ edits = 0
  /\ priceInput = Nothing
  /\ priceOutput = Null
  /\ localeInput = <<>>
  /\ localeOutput = Null
  /\ colorInput = Nothing
  /\ colorOutput = NullColor
  /\ props = Nothing
  /\ progress = idleProgress
  /\ phase = "idle"
  /\ isOnline = TRUE
  /\ chunkIndex = 0
  /\ imported = 0
  /\ errors = <<>>
  /\ calls = <<>>
  /\ completions = <<>>
  /\ queueStore = {}
  /\ queuedImports = <<>>
  /\ enqueued = <<>>

\* handleFileSelect(file) up to its await: the file is selected and the
\* page is processing.  The handler overwrites the whole session, so Replace
\* on a selected file leads where clearing and selecting leads; the action
\* is taken from the cleared session only.
HandleFileSelect(files) ==
  /\ selectedFile = Nothing
  /\ ~isProcessing
  /\ \E file \in files : selectedFile' = file
  /\ isProcessing' = TRUE
  /\ edits' = 0
  /\ UNCHANGED <<queueVars, parseResult, priceVars, importVars>>

\* handleFileSelect after its await: the parse result, or the single
\* top-level error when the decoding throws, and the end of processing.
HandleFileParsed ==
  /\ isProcessing
  /\ parseResult' = fileSelectResult(selectedFile)
  /\ isProcessing' = FALSE
  /\ UNCHANGED <<queueVars, selectedFile, edits, priceVars, importVars>>

HandleClearFile ==
  /\ selectedFile # Nothing
  /\ ~isProcessing
  /\ selectedFile' = Nothing
  /\ parseResult' = Nothing
  /\ edits' = 0
  /\ UNCHANGED <<queueVars, isProcessing, priceVars, importVars>>

HandleClearPreview ==
  /\ parseResult # Nothing
  /\ parseResult' = Nothing
  /\ edits' = 0
  /\ UNCHANGED <<queueVars, selectedFile, isProcessing, priceVars, importVars>>

\* The calls handleCellEdit(rowIndex, field, value) the table offers under a
\* filter: every editable cell of a shown row that is no section header,
\* with the index of the row in the batch.
cellEditsUnder(rows, shown) ==
  UNION {{[index |-> shown[rowIndex], field |-> field, value |-> value] :
            value \in EditValues(field)} :
           rowIndex \in {k \in 1..Len(shown) : ~rows[shown[k]].isSectionHeader},
           field \in EditableFields}

cellEdits(rows) ==
  UNION {cellEditsUnder(rows, filteredRows(rows, filter.selectedBrand,
                                           filter.selectedColor)) :
           filter \in Filters}

\* The ParseResult after handleCellEdit's call of onUpdateRow.
afterCellEdit(result, e) ==
  handleUpdateRow(result, e.index, e.field, parsedValue(e.field, e.value))

\* handleCellEdit(rowIndex, field, value) on an editable cell of the
\* filtered table, and the handleUpdateRow call it makes.
HandleCellEdit ==
  /\ parseResult # Nothing
  /\ edits < MaxEdits
  /\ \E e \in cellEdits(parseResult.rows) :
       parseResult' = afterCellEdit(parseResult, e)
  /\ edits' = edits + 1
  /\ UNCHANGED <<queueVars, selectedFile, isProcessing, priceVars, importVars>>

HandleAutoFillColors ==
  /\ parseResult # Nothing
  /\ Len(parseResult.rows) > 0
  /\ edits < MaxEdits
  /\ parseResult' = handleAutoFillColors(parseResult)
  /\ edits' = edits + 1
  /\ UNCHANGED <<queueVars, selectedFile, isProcessing, priceVars, importVars>>

\* computeDisplayPrice applied to a row of price fields.
ComputeDisplayPrice ==
  \E iu \in PriceValues, eu \in PriceValues, ic \in PriceValues,
     ec \in PriceValues, pc \in CaseValues :
    LET r == [inc_vat_per_unit |-> iu, ex_vat_per_unit |-> eu,
              inc_vat_per_case |-> ic, ex_vat_per_case |-> ec,
              packed_case |-> pc]
    IN  /\ priceInput' = r
        /\ priceOutput' = computeDisplayPrice(r)
        /\ UNCHANGED <<queueVars, sessionVars, importVars, localeInput,
                       localeOutput,
                       colorInput, colorOutput>>

\* parseLocaleNumber applied to a string.
ParseLocaleNumber ==
  \E text \in LocaleTexts(localeInput) :
    /\ localeInput' = text
    /\ localeOutput' = parseLocaleText(text)
    /\ UNCHANGED <<queueVars, sessionVars, importVars, priceInput, priceOutput,
                   colorInput, colorOutput>>

\* normalizeColor applied to a colour token and a product name.
NormalizeColor ==
  \E input \in ColorTokens, productName \in ProductNames :
    /\ colorInput' = [input |-> input, productName |-> productName]
    /\ colorOutput' = normalizeColor(input, productName)
    /\ UNCHANGED <<queueVars, sessionVars, importVars, priceInput, priceOutput,
                   localeInput, localeOutput>>

\* ImportActions rendered with the rows of a parse result and the name of
\* the file.
RenderImportActions(batches) ==
  /\ props = Nothing
  /\ \E rows \in batches : props' = [rows |-> rows, filename |-> FileName]
  /\ UNCHANGED <<queueVars, sessionVars, priceVars, progress, phase, isOnline,
                 chunkIndex,
                 imported, errors, calls, completions, queueStore>>

\* handleImport up to its first await: with no valid row it returns; off
\* line it calls queueImport; on line it issues the call of the first chunk.
\* The Import button is disabled while a run is importing.
HandleImport ==
  /\ props # Nothing
  /\ progress.status # "importing"
  /\ Len(validRowsOf(props.rows)) > 0
  /\ \E online \in BOOLEAN :
       /\ isOnline' = online
       /\ IF online
          THEN /\ phase' = "upserting"
               /\ calls' = submitted(<<>>, chunksOf(validRowsOf(props.rows)),
                                     upsertsAt(0, Len(chunksOf(validRowsOf(props.rows)))))
               /\ progress' = importingProgress(0, Len(chunksOf(validRowsOf(props.rows))),
                                                0, Len(validRowsOf(props.rows)))
          ELSE /\ phase' = "queueing"
               /\ calls' = <<>>
               /\ progress' = startingProgress(Len(validRowsOf(props.rows)))
  /\ chunkIndex' = 0
  /\ imported' = 0
  /\ errors' = <<>>
  /\ completions' = <<>>
  /\ UNCHANGED <<queueVars, sessionVars, priceVars, props, queueStore>>

\* upsertReturned without the catch around the call: a call that throws
\* ends the loop and leaves the progress as it is.
upsertReturned_uncaughtThrow(chunks, total, after, outcome) ==
  IF outcome = "throw"
  THEN /\ phase' = "done"
       /\ calls' = [calls EXCEPT ![chunkIndex + 1].result = outcome]
       /\ UNCHANGED <<imported, errors, chunkIndex, progress, completions>>
  ELSE /\ imported' = after.imported
       /\ errors' = after.errors
       /\ chunkIndex' = chunkIndex + 1
       /\ IF chunkIndex + 1 < Len(chunks)
          THEN /\ calls' = submitted([calls EXCEPT ![chunkIndex + 1].result = outcome],
                                     chunks, upsertsAt(chunkIndex + 1, Len(chunks)))
               /\ progress' = importingProgress(chunkIndex + 1, Len(chunks),
                                                after.imported, total)
               /\ UNCHANGED <<phase, completions>>
          ELSE /\ calls' = [calls EXCEPT ![chunkIndex + 1].result = outcome]
               /\ progress' = completeProgress(after.imported, total)
               /\ completions' = Append(completions,
                                        importResult(after.imported, total,
                                                     after.errors))
               /\ phase' = "done"

\* The rest of an iteration of the loop once its call has ended with the
\* outcome, and then the next iteration up to its await or the end of the
\* run.
upsertReturned(chunks, total, after, outcome) ==
  /\ imported' = after.imported
  /\ errors' = after.errors
  /\ chunkIndex' = chunkIndex + 1
  /\ IF chunkIndex + 1 < Len(chunks)
     THEN /\ calls' = submitted([calls EXCEPT ![chunkIndex + 1].result = outcome],
                                chunks, upsertsAt(chunkIndex + 1, Len(chunks)))
          /\ progress' = importingProgress(chunkIndex + 1, Len(chunks),
                                           after.imported, total)
          /\ UNCHANGED <<phase, completions>>
     ELSE /\ calls' = [calls EXCEPT ![chunkIndex + 1].result = outcome]
          /\ progress' = completeProgress(after.imported, total)
          /\ completions' = Append(completions,
                                   importResult(after.imported, total, after.errors))
          /\ phase' = "done"

\* The awaited upsert call returns or throws.
UpsertReturns ==
  /\ phase = "upserting"
  /\ \E outcome \in UpsertOutcomes, chunks \in {chunksOf(validRowsOf(props.rows))} :
       \E after \in {afterUpsert(imported, errors, chunks[chunkIndex + 1], outcome)} :
          upsertReturned(chunks, Len(validRowsOf(props.rows)), after, outcome)
  /\ UNCHANGED <<queueVars, sessionVars, priceVars, props, isOnline,
                 queueStore>>

\* The awaited queueImport resolves: the entry is stored under the id made
\* of a clock reading and a random suffix.
QueueImportResolves(clock, suffixes) ==
  /\ phase = "queueing"
  /\ \E now \in clock, suffix \in suffixes :
       queueStore' = idbSet(queueStore,
                            queueImport(validRowsOf(props.rows), props.filename,
                                        now, suffix))
  /\ progress' = queuedProgress(Len(validRowsOf(props.rows)))
  /\ completions' = Append(completions, queuedResult)
  /\ phase' = "done"
  /\ UNCHANGED <<queueVars, sessionVars, priceVars, props, isOnline,
                 chunkIndex, imported, errors, calls>>

\* The awaited queueImport rejects: the outer catch.
QueueImportRejects ==
  /\ phase = "queueing"
  /\ progress' = errorProgress(Len(validRowsOf(props.rows)))
  /\ phase' = "done"
  /\ UNCHANGED <<queueVars, sessionVars, priceVars, props, isOnline,
                 chunkIndex, imported, errors, calls, completions, queueStore>>

runVars ==
  <<props, progress, phase, isOnline, chunkIndex, imported, errors, calls,
    completions>>

\* set(id, queuedImport) of queueImport: the entry is stored under its id.
enqueues(entry) ==
  /\ queueStore' = idbSet(queueStore, entry)
  /\ enqueued' = Append(enqueued, entry)

\* queueImport(rows, filename) at a clock reading that is not before the
\* one of an entry of the store.
QueueImport(batches, clock, suffixes) ==
  /\ Len(enqueued) < MaxQueued
  /\ \E rows \in batches, now \in clock, suffix \in suffixes :
       /\ \A e \in queueStore : e.timestamp <= now
       /\ enqueues(queueImport(rows, FileName, now, suffix))
  /\ UNCHANGED <<queuedImports, sessionVars, priceVars, runVars>>

\* getQueuedImports().
GetQueuedImports ==
  /\ queuedImports' = getQueuedImports(queueStore)
  /\ UNCHANGED <<enqueued, queueStore, sessionVars, priceVars, runVars>>

\* removeQueuedImport(id) with the id of an entry of the store.
RemoveQueuedImport ==
  /\ \E entry \in queueStore :
       /\ queueStore' = removeQueuedImport(queueStore, entry.id)
       /\ enqueued' = SelectSeq(enqueued, LAMBDA e : e.id # entry.id)
  /\ UNCHANGED <<queuedImports, sessionVars, priceVars, runVars>>

\* clearQueue().
ClearQueue ==
  /\ queueStore' = clearQueue(queueStore)
  /\ enqueued' = <<>>
  /\ UNCHANGED <<queuedImports, sessionVars, priceVars, runVars>>

\* The review session: upload, edit cells, auto-fill, clear.
Next ==
  \/ HandleFileSelect(ReviewFiles)
  \/ HandleFileParsed
  \/ HandleClearFile
  \/ HandleClearPreview
  \/ HandleCellEdit
  \/ HandleAutoFillColors

Spec == Init /\ [][Next]_vars

\* Uploads only, over the larger sheets.
NextParse ==
  \/ HandleFileSelect(ParseFiles)
  \/ HandleFileParsed
  \/ HandleClearFile

SpecParse == Init /\ [][NextParse]_vars

\* Uploads of sheets whose header row is not the first row.
NextHeader ==
  \/ HandleFileSelect(HeaderFiles)
  \/ HandleFileParsed
  \/ HandleClearFile

SpecHeader == Init /\ [][NextHeader]_vars

\* computeDisplayPrice on its own.
NextPrice == ComputeDisplayPrice

SpecPrice == Init /\ [][NextPrice]_vars

\* parseLocaleNumber on its own.
NextLocale == ParseLocaleNumber

SpecLocale == Init /\ [][NextLocale]_vars

\* normalizeColor on its own.
NextColor == NormalizeColor

SpecColor == Init /\ [][NextColor]_vars

\* Import runs of ImportActions over the batches.
NextImport ==
  \/ RenderImportActions(ImportBatches)
  \/ HandleImport
  \/ UpsertReturns
  \/ QueueImportResolves(ImportClock, ImportSuffixes)
  \/ QueueImportRejects

SpecImport == Init /\ [][NextImport]_vars

\* Import runs whose awaited calls end: the upsert call of a run that is
\* waiting for it returns or throws, the queue call resolves or rejects.
SpecImportFair ==
  /\ Init
  /\ [][NextImport]_vars
  /\ WF_vars(UpsertReturns)
  /\ WF_vars(QueueImportResolves(ImportClock, ImportSuffixes) \/ QueueImportRejects)

\* The page renders ImportActions with the rows of the parse result once
\* it has a valid row.
RenderReviewedRows ==
  /\ parseResult # Nothing
  /\ parseResult.validRows > 0
  /\ RenderImportActions({parseResult.rows})

\* From the upload of a sheet whose header row is not the first row, over
\* an edit of a cell, to the import of the reviewed rows.
NextReviewImport ==
  \/ HandleFileSelect(OffsetFiles)
  \/ HandleFileParsed
  \/ (props = Nothing /\ edits = 0 /\ HandleCellEdit)
  \/ RenderReviewedRows
  \/ HandleImport
  \/ UpsertReturns
  \/ QueueImportResolves(ImportClock, ImportSuffixes)
  \/ QueueImportRejects

SpecReviewImport == Init /\ [][NextReviewImport]_vars

\* The offline queue on its own.
NextQueue ==
  \/ QueueImport(QueueBatches, QueueClock, QueueSuffixes)
  \/ GetQueuedImports
  \/ RemoveQueuedImport
  \/ ClearQueue

SpecQueue == Init /\ [][NextQueue]_vars

-----------------------------------------------------------------------------
(* What the properties read off a state.                                   *)

\* The session holds the result of a parse that decoded the file.
Decoded ==
  /\ selectedFile # Nothing
  /\ parseResult # Nothing
  /\ parseResult.errors # <<FailedToParse>>

\* The sheet of the uploaded file and its columns; row k of the sheet is
\* Sheet[k], the header row is Sheet[1].
Sheet == selectedFile.raw
Columns == buildHeaderIndex(Sheet[1])

\* The trimmed text of the cell of sheet row k in the field's column.
CellOf(k, key) == Trim(CellText(CellAt(Sheet[k], Columns, key)))

\* The rows of the current result and the indices of its product rows.
Rows == parseResult.rows
ProductRows == {i \in 1..Len(Rows) : ~Rows[i].isSectionHeader}

\* The label of the last section-header row of the result above sheet row
\* k, "" when there is none.
BrandAbove(k) ==
  LET above == {i \in 1..Len(Rows) :
                  Rows[i].isSectionHeader /\ Rows[i].row_number < k}
  IN  IF above = {} THEN ""
      ELSE Rows[CHOOSE i \in above : \A j \in above : j <= i].product_name

\* The category of the last colour-section row of the sheet above row k,
\* NullColor when there is none.
ColorAbove(k) ==
  LET above == {j \in 2..(k - 1) : detectColorSection(Sheet[j]) # NullColor}
  IN  IF above = {} THEN NullColor
      ELSE detectColorSection(Sheet[CHOOSE i \in above : \A j \in above : j <= i])

\* The category the synonym table gives the colour cell of sheet row k.
ExplicitColor(k) == COLOR_MAP(Lower(CellOf(k, "color")))

-----------------------------------------------------------------------------
(* C1.  Brand of a product row.                                            *)

\* C1: every product row of a parse has the brand of its own brand cell when
\* that cell is non-empty, and the label of the last section-header row
\* above it only when the cell is empty.
C1_OwnBrandFirst ==
  Decoded =>
    \A i \in ProductRows :
      Rows[i].brand =
        IF CellOf(Rows[i].row_number, "brand") # ""
        THEN CellOf(Rows[i].row_number, "brand")
        ELSE BrandAbove(Rows[i].row_number)

-----------------------------------------------------------------------------
(* C2.  Colour of a product row.                                           *)

\* C2: every product row of a parse whose colour cell is empty or not in the
\* synonym table has the category of the last colour-section row above it,
\* and a row with a recognised colour cell has that category.
C2_ActiveColorInherited ==
  Decoded =>
    \A i \in ProductRows :
      Rows[i].color =
        IF ExplicitColor(Rows[i].row_number) # NullColor
        THEN ExplicitColor(Rows[i].row_number)
        ELSE ColorAbove(Rows[i].row_number)

-----------------------------------------------------------------------------
(* C3.  Colour-section rows.                                               *)

\* Sheet row k carries product data: a product name, a size or a price.
HasProductData(k) ==
  \E key \in {"product_name", "size_text", "ex_vat_per_case",
              "ex_vat_per_unit", "inc_vat_per_case", "inc_vat_per_unit"} :
    CellOf(k, key) # ""

\* C3: a sheet row that carries product data is never taken for a
\* colour-section row, and the result holds a row for it.
C3_ProductRowNotSwallowed ==
  Decoded =>
    \A k \in 2..Len(Sheet) :
      HasProductData(k) =>
        /\ detectColorSection(Sheet[k]) = NullColor
        /\ \E i \in 1..Len(Rows) : Rows[i].row_number = k

-----------------------------------------------------------------------------
(* C4.  The display price.                                                 *)

\* The fallback order with "present" read as "not null".
displayPriceByPresence(r) ==
  IF ~IsNull(r.inc_vat_per_unit) THEN r.inc_vat_per_unit
  ELSE IF ~IsNull(r.ex_vat_per_unit) THEN r.ex_vat_per_unit
  ELSE IF ~IsNull(r.inc_vat_per_case) /\ ~IsNull(r.packed_case)
       THEN Quot(r.inc_vat_per_case, r.packed_case)
  ELSE IF ~IsNull(r.ex_vat_per_case) /\ ~IsNull(r.packed_case)
       THEN Quot(r.ex_vat_per_case, r.packed_case)
  ELSE Null

\* C4: computeDisplayPrice follows the fallback order inc/unit, ex/unit,
\* inc/case over packed_case, ex/case over packed_case, null, where a field
\* with the value 0 counts as present.
C4_FallbackByPresence ==
  priceInput # Nothing => priceOutput = displayPriceByPresence(priceInput)

-----------------------------------------------------------------------------
(* C5.  Validity of a product row of a parse.                              *)

ValidatedFields ==
  {"brand", "area", "product_name", "size_text", "packed_case",
   "ex_vat_per_case", "ex_vat_per_unit", "inc_vat_per_case",
   "inc_vat_per_unit"}

\* The rule of the field fails on the row.
FieldFails(row, f) ==
  IF f \in {"brand", "area", "product_name", "size_text"} THEN row[f] = ""
  ELSE IF f = "packed_case"
       THEN IsNull(row[f]) \/ ~IsInt(row[f]) \/ ~RatGE(row[f], 1)
  ELSE ~IsNull(row[f]) /\ ~RatGE(row[f], 0)

\* The messages that name the field.
MessagesNaming(f) ==
  CASE f = "brand"        -> {ErrBrand}
    [] f = "area"         -> {ErrArea}
    [] f = "product_name" -> {ErrProduct}
    [] f = "size_text"    -> {ErrSize}
    [] f = "packed_case"  -> {ErrCaseInt, ErrCaseMin}
    [] OTHER              -> {ErrMin0(f)}

Occurrences(msgs, set) == Cardinality({j \in 1..Len(msgs) : msgs[j] \in set})

ValidityMatchesRules(row) ==
  /\ row.isValid <=> \A f \in ValidatedFields : ~FieldFails(row, f)
  /\ \A f \in ValidatedFields :
       Occurrences(row.errors, MessagesNaming(f)) =
         IF FieldFails(row, f) THEN 1 ELSE 0
  /\ \A j \in 1..Len(row.errors) :
       \E f \in ValidatedFields : row.errors[j] \in MessagesNaming(f)

-----------------------------------------------------------------------------
(* C6, C7.  Duplicate warnings.                                            *)

DuplicateWarnings == {WarnDuplicate(n) : n \in 2..6}

\* The product rows with the brand, product_name and size_text of row i,
\* among all product rows and among those with a product name.
SameKey(i, j) ==
  /\ Rows[j].brand = Rows[i].brand
  /\ Rows[j].product_name = Rows[i].product_name
  /\ Rows[j].size_text = Rows[i].size_text

GroupOf(i) == {j \in ProductRows : SameKey(i, j)}
NamedRows == {i \in ProductRows : Rows[i].product_name # ""}
NamedGroupOf(i) == {j \in NamedRows : SameKey(i, j)}

\* Row i carries the warning of a group of n rows when n > 1, and no
\* duplicate warning otherwise.
FlaggedAs(i, n) ==
  IF n > 1
  THEN Occurrences(Rows[i].warnings, DuplicateWarnings) = 1
       /\ Occurrences(Rows[i].warnings, {WarnDuplicate(n)}) = 1
  ELSE Occurrences(Rows[i].warnings, DuplicateWarnings) = 0

\* The row before the duplicate check.
Unmarked(row) ==
  LET other(w) == w \notin DuplicateWarnings
  IN  [row EXCEPT !.duplicateKey = Undefined, !.warnings = SelectSeq(@, other)]

Perms(n) ==
  {q \in [1..n -> 1..n] : \A a, b \in 1..n : q[a] = q[b] => a = b}

\* The duplicate check gives each row the same outcome in every order.
OrderIndependent(rows) ==
  \A q \in Perms(Len(rows)) :
    markDuplicates([i \in 1..Len(rows) |-> Unmarked(rows[q[i]])])
      = [i \in 1..Len(rows) |-> rows[q[i]]]

\* C6 as stated: in the result of a parse a product row carries a duplicate
\* warning exactly when another product row has its key, and the warning
\* states the size of the group.
C6_EveryProductRowGrouped ==
  Decoded => \A i \in ProductRows : FlaggedAs(i, Cardinality(GroupOf(i)))

\* C6 amended: in the result of a parse a product row with a product name
\* carries a duplicate warning exactly when another product row with a
\* product name has its key, the warning states the size of that group, a
\* row without a product name carries none, and the outcome is the same
\* for every order of the rows.
C6_NamedRowsGrouped ==
  Decoded =>
    /\ \A i \in NamedRows : FlaggedAs(i, Cardinality(NamedGroupOf(i)))
    /\ \A i \in ProductRows \ NamedRows : FlaggedAs(i, 0)
    /\ OrderIndependent(Rows)

\* A parse with a group of two named rows, both warned with the count 2,
\* and a third row outside the group without a warning.
C6_Witness ==
  /\ Decoded
  /\ \E i \in NamedRows :
       /\ Cardinality(NamedGroupOf(i)) = 2
       /\ Occurrences(Rows[i].warnings, {WarnDuplicate(2)}) = 1
  /\ \E i \in ProductRows :
       /\ Cardinality(GroupOf(i)) = 1
       /\ Occurrences(Rows[i].warnings, DuplicateWarnings) = 0

\* C7: after any sequence of cell edits a product row with a product name
\* carries the duplicate warning of its current group exactly when another
\* such row has its current key.
C7_DuplicatesFollowEdits ==
  (Decoded /\ edits >= 0) =>
    \A i \in NamedRows : FlaggedAs(i, Cardinality(NamedGroupOf(i)))

-----------------------------------------------------------------------------
(* C8.  The frame of a cell edit.                                          *)

DerivedFields == {"display_price", "errors", "warnings", "isValid"}

\* Row b is row a but for the field f and the derived fields.
EditedOnly(a, b, f) ==
  /\ DOMAIN b = DOMAIN a
  /\ \A g \in DOMAIN a \ ({f} \cup DerivedFields) : b[g] = a[g]

\* The result after the edit e differs from the result before in the row
\* at e.index only, there in the edited field and the derived fields only,
\* and keeps the number, order and row_number of the rows and the counts
\* that no edit touches.
EditFrame(before, after, e) ==
  /\ Len(after.rows) = Len(before.rows)
  /\ after.totalRows = before.totalRows
  /\ after.sectionHeaders = before.sectionHeaders
  /\ \A j \in 1..Len(before.rows) :
       after.rows[j].row_number = before.rows[j].row_number
  /\ EditedOnly(before.rows[e.index], after.rows[e.index], e.field)
  /\ \A j \in 1..Len(before.rows) :
       j # e.index => after.rows[j] = before.rows[j]

\* C8: in every state of a review session, each cell edit the session can
\* make changes only the row at the index (its edited field, display_price,
\* errors, warnings and isValid) and the summary; the other rows, and the
\* number, order and row_number of the rows, stay, so no invalid row is
\* removed.
C8_EditTouchesOneRow ==
  (Decoded /\ edits < MaxEdits) =>
    \A e \in cellEdits(Rows) :
      EditFrame(parseResult, afterCellEdit(parseResult, e), e)

\* An edited batch of two rows that still holds an invalid row.
C8_Witness ==
  /\ Decoded
  /\ edits > 0
  /\ Len(Rows) = 2
  /\ Rows # parseWorkbookV2(selectedFile).rows
  /\ \E i \in ProductRows : ~Rows[i].isValid

-----------------------------------------------------------------------------
(* C9.  The summary of a result.                                           *)

RECURSIVE ConcatOf(_, _, _)
ConcatOf(rows, field, n) ==
  IF n = 0 THEN <<>> ELSE ConcatOf(rows, field, n - 1) \o rows[n][field]

\* C9: in every result of a decoded parse, edited and auto-filled or not,
\* validRows, invalidRows and sectionHeaders count the valid product rows,
\* the invalid product rows and the section rows, and errors and warnings
\* are the rows' own errors and warnings in row order.
C9_SummaryMatchesRows ==
  Decoded =>
    /\ parseResult.validRows =
         Cardinality({i \in ProductRows : Rows[i].isValid})
    /\ parseResult.invalidRows =
         Cardinality({i \in ProductRows : ~Rows[i].isValid})
    /\ parseResult.sectionHeaders =
         Cardinality({i \in 1..Len(Rows) : Rows[i].isSectionHeader})
    /\ parseResult.errors = ConcatOf(Rows, "errors", Len(Rows))
    /\ parseResult.warnings = ConcatOf(Rows, "warnings", Len(Rows))

\* A batch with a section row and a valid row after an edit and an
\* auto-fill that changed a row.
C9_Witness ==
  /\ Decoded
  /\ edits >= 2
  /\ parseResult.sectionHeaders = 1
  /\ parseResult.validRows = 1
  /\ Rows # parseWorkbookV2(selectedFile).rows
  /\ handleAutoFillColors(parseResult) = parseResult
  /\ \E i \in ProductRows :
       Rows[i].color # parseWorkbookV2(selectedFile).rows[i].color

-----------------------------------------------------------------------------
(* C10.  Rows without a product name.                                      *)

BlankProductSource(k) ==
  /\ CellOf(k, "product_name") = ""
  /\ \E j \in 1..Len(Sheet[k]) : ~IsFalsyOrBlankCell(Sheet[k][j])
  /\ detectColorSection(Sheet[k]) = NullColor
  /\ ~isSectionHeader(Sheet[k])

-----------------------------------------------------------------------------
(* C11.  The colour of a row.                                              *)

\* C11 as stated: in every state after a parse, cell edits and auto-fills,
\* the colour of each row is RED, WHITE, ROSE, DESSERT or null, never an
\* empty or arbitrary string.
C11_ColorIsCodeOrNull ==
  Decoded => \A i \in 1..Len(Rows) : Rows[i].color \in WineColorEnum \cup {NullColor}

-----------------------------------------------------------------------------
(* C12.  The display price follows the price fields.                       *)

\* C12: in every state after a parse, cell edits and auto-fills, the
\* display_price of each non-section row is computeDisplayPrice of the
\* row's current price fields and packed_case.
C12_DisplayPriceCurrent ==
  Decoded => \A i \in ProductRows : Rows[i].display_price = computeDisplayPrice(Rows[i])

\* An edit has changed the display price of a row.
C12_Witness ==
  /\ Decoded
  /\ edits > 0
  /\ \E i \in ProductRows :
       /\ Rows[i].display_price # parseWorkbookV2(selectedFile).rows[i].display_price
       /\ ~IsNull(Rows[i].display_price)

-----------------------------------------------------------------------------
(* C13.  The advisory warnings.                                            *)

\* C13: in every state after a parse, cell edits and auto-fills, a
\* non-section row carries the "No unit price available" warning exactly
\* when its display_price is null and the "Missing color" warning exactly
\* when it has no colour, each at most once, and the row is valid exactly
\* when it has no errors, whatever its warnings.
C13_WarningsAdvisory ==
  Decoded =>
    \A i \in ProductRows :
      /\ Occurrences(Rows[i].warnings, {WarnNoPrice})
           = (IF IsNull(Rows[i].display_price) THEN 1 ELSE 0)
      /\ Occurrences(Rows[i].warnings, {WarnNoColor})
           = (IF Rows[i].color \in {NullColor, ""} THEN 1 ELSE 0)
      /\ Rows[i].isValid <=> (Rows[i].errors = <<>>)

\* An edit has left a valid row with both warnings.
C13_Witness ==
  /\ Decoded
  /\ edits > 0
  /\ \E i \in ProductRows :
       /\ Rows[i].isValid
       /\ Occurrences(Rows[i].warnings, {WarnNoPrice}) = 1
       /\ Occurrences(Rows[i].warnings, {WarnNoColor}) = 1

-----------------------------------------------------------------------------
(* C14.  Section-header rows.                                              *)

\* C14: in every state after a parse, cell edits and auto-fills, every
\* section-header row has isValid = FALSE, validRows and invalidRows count
\* the valid and the invalid rows among the other rows only, and no
\* section-header row is in the rows an import would submit or queue.
C14_SectionRowsApart ==
  Decoded =>
    /\ \A i \in 1..Len(Rows) : Rows[i].isSectionHeader => ~Rows[i].isValid
    /\ parseResult.validRows = Cardinality({i \in ProductRows : Rows[i].isValid})
    /\ parseResult.invalidRows = Cardinality({i \in ProductRows : ~Rows[i].isValid})
    /\ parseResult.validRows + parseResult.invalidRows = Cardinality(ProductRows)
    /\ \A k \in 1..Len(validRowsOf(Rows)) : ~validRowsOf(Rows)[k].isSectionHeader

\* A batch with a section-header row and a valid row, after an edit.
C14_Witness ==
  /\ Decoded
  /\ edits > 0
  /\ \E i \in 1..Len(Rows) : Rows[i].isSectionHeader
  /\ parseResult.validRows = 1
  /\ Len(validRowsOf(Rows)) = 1
  /\ parseResult.validRows + parseResult.invalidRows < Len(Rows)

-----------------------------------------------------------------------------
(* What the properties read off an import run.                             *)

\* The valid-row list of the rows ImportActions was rendered with, and the
\* sheet rows of the rows that are valid and no section header.
ValidRows == validRowsOf(props.rows)
ImportableNumbers ==
  {props.rows[r].row_number :
     r \in {q \in 1..Len(props.rows) :
              props.rows[q].isValid /\ ~props.rows[q].isSectionHeader}}

\* A run on line has ended; a run off line has ended.
OnlineRunDone == props # Nothing /\ phase = "done" /\ isOnline
OfflineRunDone == props # Nothing /\ phase = "done" /\ ~isOnline

\* The number of chunks of n rows, and the positions (in the valid-row
\* list) of the rows of chunk k.
ChunkCount(n) == (n + chunkSize - 1) \div chunkSize
ChunkLength(n, k) ==
  (IF chunkSize * k < n THEN chunkSize * k ELSE n) - chunkSize * (k - 1)

\* The sheet rows call k carries, and the sizes of the calls.
RowNumbersOf(k) == {calls[k].rows[j].row_number : j \in 1..Len(calls[k].rows)}
CallSizes == [k \in 1..Len(calls) |-> Len(calls[k].rows)]

\* The calls that failed.
Failed(k) == calls[k].result \in {"error", "throw"}

-----------------------------------------------------------------------------
(* C15.  The chunks of an online import.                                   *)

\* Call k carries rows chunkSize(k-1)+1 .. min(chunkSize k, n) of the list.
CarriesItsSlice(valid, k) ==
  calls[k].rows =
    [j \in 1..ChunkLength(Len(valid), k) |->
       mappedRow(valid[chunkSize * (k - 1) + j])]

\* C15: call k of a run carries rows 250(k-1)+1 .. min(250k, n) of the
\* valid-row list in order; an online run of n valid rows that has ended has
\* issued ceil(n/250) calls, and the rows it submitted are the rows that
\* are valid and no section header, each once; 600 rows give calls of 250,
\* 250 and 100 rows.
C15_ChunksInOrder ==
  props # Nothing =>
    /\ \A k \in 1..Len(calls) : CarriesItsSlice(ValidRows, k)
    /\ OnlineRunDone =>
         /\ Len(calls) = ChunkCount(Len(ValidRows))
         /\ UNION {RowNumbersOf(k) : k \in 1..Len(calls)} = ImportableNumbers
         /\ \A k \in 1..Len(calls) :
              /\ Cardinality(RowNumbersOf(k)) = Len(calls[k].rows)
              /\ \A l \in (k + 1)..Len(calls) :
                   RowNumbersOf(k) \cap RowNumbersOf(l) = {}
         /\ Len(ValidRows) = 600 => CallSizes = <<250, 250, 100>>

\* An online run of 600 valid rows among invalid and section rows has ended.
C15_Witness ==
  /\ OnlineRunDone
  /\ Len(ValidRows) = 600
  /\ Len(calls) = 3
  /\ Len(props.rows) > 600
  /\ \E r \in 1..Len(props.rows) : props.rows[r].isSectionHeader
  /\ \E r \in 1..Len(props.rows) :
       ~props.rows[r].isValid /\ ~props.rows[r].isSectionHeader

-----------------------------------------------------------------------------
(* C16.  Failed chunks.                                                    *)

\* The row number and the product name of the error entries.
RowAndProduct(entries) ==
  [j \in 1..Len(entries) |->
     [row |-> entries[j].row, product |-> entries[j].product]]

\* imported and the error entries the first k calls account for: the rows
\* of a call without error are imported, each row of a failed call has one
\* entry with its row number and product name.
RECURSIVE TallyOf(_, _)
TallyOf(valid, k) ==
  IF k = 0 THEN [imported |-> 0, errors |-> <<>>]
  ELSE [imported |->
          TallyOf(valid, k - 1).imported
            + (IF calls[k].result = "ok" THEN ChunkLength(Len(valid), k) ELSE 0),
        errors |->
          TallyOf(valid, k - 1).errors
            \o (IF Failed(k)
                THEN [j \in 1..ChunkLength(Len(valid), k) |->
                        [row |-> valid[chunkSize * (k - 1) + j].originalRowIndex,
                         product |-> valid[chunkSize * (k - 1) + j].product_name]]
                ELSE <<>>)]

\* C16: in every state of a run, imported counts the rows of the calls
\* that ended without error only, errors holds one entry with row number
\* and product name for each row of each failed call (error returned or
\* thrown), and a failed call is followed by the call of the next chunk: an
\* online run that has ended has issued the calls of all its chunks.  With
\* 600 rows and only chunk 2 failing, imported = 350 with 250 entries.
C16_FailedChunkRecorded ==
  props # Nothing =>
    /\ imported = TallyOf(ValidRows, Len(calls)).imported
    /\ RowAndProduct(errors) = TallyOf(ValidRows, Len(calls)).errors
    /\ phase = "upserting" =>
         /\ Len(calls) = chunkIndex + 1
         /\ \A k \in 1..chunkIndex : calls[k].result # "pending"
    /\ OnlineRunDone =>
         /\ Len(calls) = ChunkCount(Len(ValidRows))
         /\ completions = <<[imported |-> imported,
                              skipped |-> Len(ValidRows) - imported,
                              errors |-> errors]>>
    /\ (OnlineRunDone /\ Len(ValidRows) = 600 /\ Len(calls) = 3
          /\ ~Failed(1) /\ Failed(2) /\ ~Failed(3)) =>
         imported = 350 /\ Len(errors) = 250

\* A run of 600 rows whose second call alone failed has ended.
C16_Witness ==
  /\ OnlineRunDone
  /\ Len(ValidRows) = 600
  /\ Len(calls) = 3
  /\ calls[1].result = "ok" /\ calls[2].result = "throw" /\ calls[3].result = "ok"
  /\ imported = 350
  /\ Len(errors) = 250

-----------------------------------------------------------------------------
(* C17.  Import off line.                                                  *)

\* C17 as stated: a run that started off line and was queued made no
\* upsert call, left the whole valid-row list with the filename in a single
\* queue entry, and reports imported = 0 together with the identifier of
\* the entry and a queued status.
C17_OfflineReportsQueued ==
  (OfflineRunDone /\ completions # <<>>) =>
    /\ calls = <<>>
    /\ \E entry \in queueStore :
         /\ entry.rows = ValidRows /\ entry.filename = props.filename
         /\ Len(completions) = 1
         /\ completions[1].imported = 0
         /\ "queueId" \in DOMAIN completions[1]
         /\ completions[1].queueId = entry.id
    /\ progress.status = "queued"

-----------------------------------------------------------------------------
(* C18.  The status of a run.                                              *)

\* A step that changes the status starts a run (from idle, or from the
\* end of the run before), or ends the run that is importing.
StatusStep ==
  \/ progress'.status = progress.status
  \/ /\ progress.status \in {"idle", "complete", "error"}
     /\ progress'.status = "importing"
     /\ progress'.current = 0 /\ imported' = 0 /\ errors' = <<>>
     /\ completions' = <<>>
  \/ /\ progress.status = "importing"
     /\ progress'.status \in {"complete", "error"}

\* C18: the status of a run moves from importing to complete or to error
\* only, a run starting from idle or from the end of the run before; the
\* status is error only when no call of the run was issued; an online run
\* that has ended is complete, with a non-empty errors list exactly when a
\* call failed.
C18_StatusOfRun ==
  /\ [][StatusStep]_vars
  /\ [](progress.status = "error" => (calls = <<>> /\ phase = "done" /\ ~isOnline))
  /\ [](progress.status = "idle" => phase = "idle")
  /\ [](progress.status = "importing" <=> phase \in {"upserting", "queueing"})
  /\ [](OnlineRunDone =>
          /\ progress.status = "complete"
          /\ (errors # <<>>) <=> \E k \in 1..Len(calls) : Failed(k))

\* A run all of whose three calls failed has ended.
C18_Witness ==
  /\ OnlineRunDone
  /\ Len(calls) = 3
  /\ \A k \in 1..Len(calls) : Failed(k)
  /\ imported = 0
  /\ progress.status = "complete"
  /\ errors # <<>>

-----------------------------------------------------------------------------
(* C19.  One call at a time.                                               *)

\* The calls in flight.
InFlight == {k \in 1..Len(calls) : calls[k].result = "pending"}

\* C19: at most one upsert call is in flight, and it is the last one
\* issued (every call before it has returned or failed); the progress count
\* never exceeds the total and does not decrease from one importing state
\* to the next.
C19_OneCallInFlight ==
  /\ [](/\ Cardinality(InFlight) <= 1
        /\ \A k \in InFlight : k = Len(calls)
        /\ progress.current <= progress.total)
  /\ [][(progress.status = "importing" /\ progress'.status = "importing")
          => progress'.current >= progress.current]_vars

\* The third call is in flight after one call succeeded and one failed.
C19_Witness ==
  /\ phase = "upserting"
  /\ Len(calls) = 3
  /\ InFlight = {3}
  /\ \E k \in 1..2 : Failed(k)
  /\ progress.current = chunkSize
  /\ progress.status = "importing"

-----------------------------------------------------------------------------
(* C20.  A file that cannot be decoded.                                    *)

\* C20: while handleFileSelect is processing there is no result; once it
\* has ended there is one and isProcessing is false, whether the file
\* decoded or not; the result of a file that does not decode has no rows,
\* all counts 0 and exactly one top-level error.
C20_DecodeFailureCaught ==
  /\ isProcessing => (selectedFile # Nothing /\ parseResult = Nothing)
  /\ (selectedFile # Nothing /\ ~isProcessing) => parseResult # Nothing
  /\ (selectedFile # Nothing /\ parseResult # Nothing /\ ~selectedFile.decodes) =>
       /\ parseResult.rows = <<>>
       /\ parseResult.totalRows = 0
       /\ parseResult.validRows = 0
       /\ parseResult.invalidRows = 0
       /\ parseResult.sectionHeaders = 0
       /\ Len(parseResult.errors) = 1

\* The upload of a file that does not decode has ended.
C20_Witness ==
  /\ selectedFile # Nothing
  /\ ~selectedFile.decodes
  /\ ~isProcessing
  /\ parseResult # Nothing
  /\ parseResult.errors = <<FailedToParse>>

-----------------------------------------------------------------------------
(* C21.  Separators of parseLocaleNumber.                                  *)

\* The string without its whitespace, without its commas, and with a dot
\* for each comma.
Unspaced(text) == SelectSeq(text, LAMBDA c : c \notin {" ", NBSP})
Uncomma(text) == SelectSeq(text, LAMBDA c : c # ",")
CommaAsDot(text) == [i \in 1..Len(text) |-> IF text[i] = "," THEN "." ELSE text[i]]
Has(text, c) == \E i \in 1..Len(text) : text[i] = c
OnlyDigitsAnd(text, c) ==
  \A i \in 1..Len(text) :
    text[i] \in {"0", "1", "2", "3", "4", "5", "6", "7", "8", "9", c}
CountOf(text, c) == Cardinality({i \in 1..Len(text) : text[i] = c})
PositionOf(text, c) == CHOOSE i \in 1..Len(text) : text[i] = c

\* digits "," digits: the number with the digits after the comma as decimals.
DecimalComma(text) ==
  /\ OnlyDigitsAnd(text, ",") /\ CountOf(text, ",") = 1
  /\ text[1] # "," /\ text[Len(text)] # ","
DecimalCommaValue(text) ==
  Rat(DigitsValue(Uncomma(text)), Pow10(Len(text) - PositionOf(text, ",")))

\* C21: the result is that of the string without its whitespace
\* (non-breaking spaces included); with a comma and no dot it is that of the
\* string with a dot for each comma, so digits "," digits is the decimal
\* number ("190,69" is 190.69); with a comma and a dot it is that of the
\* string without its commas ("2,288.23" is 2288.23).
C21_CommaByContext ==
    /\ localeOutput = parseLocaleText(Unspaced(localeInput))
    /\ (Has(localeInput, ",") /\ ~Has(localeInput, ".")) =>
         /\ localeOutput = parseLocaleText(CommaAsDot(localeInput))
         /\ DecimalComma(Unspaced(localeInput)) =>
              localeOutput = DecimalCommaValue(Unspaced(localeInput))
    /\ (Has(localeInput, ",") /\ Has(localeInput, ".")) =>
         localeOutput = parseLocaleText(Uncomma(localeInput))
    /\ localeInput = Chars("190,69") => localeOutput = Rat(19069, 100)
    /\ localeInput = Chars("2,288.23") => localeOutput = Rat(228823, 100)
    /\ localeInput = Chars("2 288,23") => localeOutput = Rat(228823, 100)

\* A decimal comma after a non-breaking space has been parsed.
C21_Witness ==
  /\ Has(localeInput, ",") /\ ~Has(localeInput, ".") /\ Has(localeInput, NBSP)
  /\ DecimalComma(Unspaced(localeInput))
  /\ localeOutput = Rat(15, 10)

-----------------------------------------------------------------------------
(* C22.  Failures of parseLocaleNumber.                                    *)

\* C22 as stated: for a non-empty string without a digit the result is
\* null, never 0 or NaN.
C22_NoDigitIsNull ==
  (localeInput # <<>>
     /\ \A i \in 1..Len(localeInput) : ~IsDigit(localeInput[i]))
    => localeOutput = Null

-----------------------------------------------------------------------------
(* C23.  The colour token before the product name.                         *)

\* The category of the synonym table for a trimmed, lower-cased token,
\* NullColor when the table does not list it.
SynonymOf(token) ==
  CASE token \in {"red", "rouge"}               -> "RED"
    [] token \in {"blanc", "white", "wit"}      -> "WHITE"
    [] token \in {"rosé", "rose", "blush"}      -> "ROSE"
    [] token \in {"dessert", "desert", "sweet"} -> "DESSERT"
    [] OTHER                                    -> NullColor

\* The token as the table is asked for it, and whether a rule matches the
\* product name.
TokenKey == Lower(Trim(colorInput.input))
NameMatches ==
  \E i \in 1..Len(NAME_HINTS) : HasAny(Words(colorInput.productName), NAME_HINTS[i].rx)

\* C23 as stated: a token of the synonym table gives the table's category
\* whatever the product name is, so each code gives itself; when neither
\* the token nor the name matches, the result is null.
C23_TokenBeforeName ==
  colorInput # Nothing =>
    /\ SynonymOf(TokenKey) # NullColor => colorOutput = SynonymOf(TokenKey)
    /\ colorInput.input \in WineColorEnum => colorOutput = colorInput.input
    /\ (SynonymOf(TokenKey) = NullColor /\ ~NameMatches) => colorOutput = NullColor

-----------------------------------------------------------------------------
(* C24.  The header row and the columns.                                   *)

\* The normalized cells of sheet row k, and whether the row holds at least
\* 3 of the 5 signal names.
NormalizedRow(k) == [j \in 1..Len(Sheet[k]) |-> norm(Sheet[k][j])]
Qualifies(k) ==
  Cardinality({name \in {"brand", "area", "product", "case", "size"} :
                 \E j \in 1..Len(Sheet[k]) : NormalizedRow(k)[j] = name}) >= 3

\* The position (from 1) of the header row: the first qualifying row among
\* the first 5, the first row when there is none.
HeaderPosition ==
  LET window == {k \in 1..Len(Sheet) : k <= 5 /\ Qualifies(k)}
  IN  IF window = {} THEN 1
      ELSE CHOOSE k \in window : \A l \in window : k <= l

\* The columns whose normalized header cell is an alias of the field.
AliasColumnsIn(header, key) ==
  {j \in 1..Len(header) : header[j] \in aliases(key)}
AliasColumns(key) == AliasColumnsIn(NormalizedRow(HeaderPosition), key)

\* The header map col of the row at position h with the normalized cells
\* header, and the rows of the result below it.
HeaderResolved(h, header, col) ==
  /\ findHeaderRowFrom(Sheet, 0) + 1 = h
  /\ DOMAIN col
       = {CanonicalFields[n] : n \in {m \in 1..Len(CanonicalFields) :
                                        AliasColumnsIn(header, CanonicalFields[m]) # {}}}
  /\ \A key \in DOMAIN col :
       /\ col[key] \in AliasColumnsIn(header, key)
       /\ \A j \in AliasColumnsIn(header, key) : col[key] <= j
  /\ parseResult.totalRows = Len(Sheet) - h
  /\ \A i \in 1..Len(Rows) : Rows[i].row_number > h /\ Rows[i].row_number <= Len(Sheet)

\* C24: the header row is the first of the first 5 rows with at least 3 of
\* the 5 signal names, the first row when none has; the header map gives
\* each field with an alias in the header row the lowest such column and
\* leaves out the other fields; the rows of the result come from the rows
\* below the header row only, all of which are counted.
C24_HeaderRowAndColumns ==
  (Decoded /\ Len(Sheet) > 0) =>
    \A h \in {HeaderPosition} :
      HeaderResolved(h, NormalizedRow(h), buildHeaderIndex(Sheet[h]))

\* A sheet whose fifth row is a header row of aliases with two product
\* columns has been parsed, the product rows above it left out.
C24_Witness ==
  /\ Decoded
  /\ HeaderPosition = 5
  /\ Cardinality(AliasColumns("product_name")) = 2
  /\ \E k \in 1..4 : CellText(Sheet[k][3]) = "Chardonnay"
  /\ Len(Rows) = 2
  /\ \E i \in ProductRows : Rows[i].product_name = "Tinta Barocca"

-----------------------------------------------------------------------------
(* The offline queue.                                                      *)

\* C25: after any sequence of queueImport, removeQueuedImport and clearQueue
\* calls, getQueuedImports returns exactly the batches that were enqueued
\* and not removed since, in the order of the queueImport calls, also when
\* two of them were enqueued at the same clock reading.
C25_QueueInEnqueueOrder == getQueuedImports(queueStore) = enqueued

-----------------------------------------------------------------------------
(* Validity after edits and Auto-fill Colors.                              *)

\* C26: in every state of the review session, after the parse, cell edits
\* and Auto-fill Colors, each non-section row is valid exactly when its
\* current field values satisfy the validation rules, and its errors list
\* is empty exactly when it is valid.
C26_ValidityCurrent ==
  (parseResult # Nothing) =>
    \A i \in ProductRows :
      /\ Rows[i].isValid <=> (PriceRowV3(Rows[i]) = <<>>)
      /\ (Rows[i].errors = <<>>) <=> Rows[i].isValid


-----------------------------------------------------------------------------
(* The classification of the data rows.                                    *)

Blank(c) == Trim(CellText(c)) = ""

\* The class of sheet row k by the precedence colour section, section
\* header, blank, product.
ClassOf(k) ==
  IF detectColorSection(Sheet[k]) # NullColor THEN "color-section"
  ELSE IF /\ ~Blank(Sheet[k][1])
          /\ 10 * Cardinality({j \in 2..Len(Sheet[k]) : Blank(Sheet[k][j])})
               >= 7 * (Len(Sheet[k]) - 1)
       THEN "section-header"
  ELSE IF \A j \in 1..Len(Sheet[k]) : Blank(Sheet[k][j]) THEN "blank"
  ELSE "product"

\* The rows of the result that sheet row k yielded.
YieldOf(k) == {i \in 1..Len(Rows) : Rows[i].row_number = k}

\* The product rows of the result between the section-header row i and the
\* next section-header row.
SectionOf(i) ==
  {j \in ProductRows : j > i /\ \A l \in (i + 1)..(j - 1) : l \in ProductRows}

\* C27: each data row yields at most one row of the result and the result
\* keeps the order of the sheet; a row that is no colour-section row, with a
\* non-blank first cell and at least 70% of its other cells blank, yields a
\* section-header row named after the first cell, which becomes the current
\* brand; a colour-section row and an all-blank row yield nothing; every
\* other row yields exactly one product row.
C27_OneRowPerClass ==
  (Decoded /\ Len(Sheet) > 0) =>
    /\ \A i, j \in 1..Len(Rows) :
         i < j => Rows[i].row_number < Rows[j].row_number
    /\ \A i \in 1..Len(Rows) : Rows[i].row_number \in 2..Len(Sheet)
    /\ \A k \in 2..Len(Sheet) :
         /\ Cardinality(YieldOf(k)) <= 1
         /\ ClassOf(k) \in {"color-section", "blank"} => YieldOf(k) = {}
         /\ ClassOf(k) = "section-header" =>
              \E i \in YieldOf(k) :
                 /\ Rows[i].isSectionHeader
                 /\ Rows[i].product_name = Trim(CellText(Sheet[k][1]))
                 /\ \A j \in SectionOf(i) :
                      Rows[j].brand = Trim(CellText(Sheet[k][1]))
         /\ ClassOf(k) = "product" =>
              \E i \in YieldOf(k) : ~Rows[i].isSectionHeader


-----------------------------------------------------------------------------
(* Row numbers.                                                            *)

\* The sheet rows below the header row at position header that are neither
\* a colour-section row nor a blank row: the rows with a row in the result.
SourceRowsBelow(header) ==
  {k \in (header + 1)..Len(Sheet) : ClassOf(k) \in {"section-header", "product"}}

\* The n-th of the source rows, from the top of the sheet.
SourceRow(source, n) ==
  CHOOSE k \in source : Cardinality({l \in source : l <= k}) = n

\* The rows of the result and the import error entries carry the sheet
\* positions of the source rows.
NumberedBy(source) ==
  /\ Len(Rows) = Cardinality(source)
  /\ \A n \in 1..Len(Rows) :
       /\ Rows[n].row_number = SourceRow(source, n)
       /\ Rows[n].originalRowIndex = Rows[n].row_number
  /\ \A n \in 1..(Len(Rows) - 1) : Rows[n].row_number < Rows[n + 1].row_number
  /\ props # Nothing =>
       /\ props.rows = Rows
       /\ \A n \in 1..Len(errors) :
            \E i \in 1..Len(Rows) :
               /\ Rows[i].isValid /\ ~Rows[i].isSectionHeader
               /\ errors[n].row = Rows[i].row_number
               /\ errors[n].product = Rows[i].product_name

\* C28: wherever the header row is found, the row_number of the n-th row of
\* the result is the 1-based position in the sheet of the n-th source row,
\* so row numbers increase strictly along the result, also after an edit;
\* and the row of every import error entry is the row_number, that is the
\* sheet position, of the row that failed.
C28_RowNumberIsSheetPosition ==
  (Decoded /\ Len(Sheet) > 0) =>
    \A source \in {SourceRowsBelow(HeaderPosition)} : NumberedBy(source)

\* A sheet with its header in the fifth row, a row below it that was edited
\* and then failed in the import, reported under its sheet position 7 while
\* it is the second row of the result.
C28_Witness ==
  /\ Decoded /\ HeaderPosition = 5 /\ edits = 1
  /\ Len(Rows) = 2 /\ Len(Sheet) = 7
  /\ progress.status = "complete"
  /\ \E n \in 1..Len(errors) :
       /\ errors[n].row = 7
       /\ errors[n].product = "Merlot"
       /\ CellOf(7, "product_name") # "Merlot"


-----------------------------------------------------------------------------
(* The tally of an import run.                                             *)

\* The sheet rows of the rows of the list whose call ended without error,
\* and of those whose call failed.
RowsOfCalls(valid, failed) ==
  {valid[j].row_number :
     j \in {q \in 1..Len(valid) : Failed(((q - 1) \div chunkSize) + 1) = failed}}

\* The sheet rows of the error entries.
ErrorRows(entries) == {entries[n].row : n \in 1..Len(entries)}

\* The result of the run counts each row of the list once: as imported when
\* its call ended without error, with one error entry when its call failed.
CountedOnce(valid, result) ==
  /\ result.imported + Len(result.errors) = Len(valid)
  /\ result.skipped = Len(result.errors)
  /\ result.imported = Cardinality(RowsOfCalls(valid, FALSE))
  /\ ErrorRows(result.errors) = RowsOfCalls(valid, TRUE)
  /\ Cardinality(ErrorRows(result.errors)) = Len(result.errors)
  /\ Cardinality(RowsOfCalls(valid, FALSE) \cup RowsOfCalls(valid, TRUE))
       = Len(valid)

\* C29: when a run on line completes, imported plus the number of error
\* entries is the number of valid rows of the run, skipped is the number of
\* error entries, and each valid row is either among the imported rows or
\* has one error entry, whichever calls failed.
C29_EveryRowCounted ==
  (OnlineRunDone /\ progress.status = "complete") =>
    /\ Len(completions) = 1
    /\ \A valid \in {ValidRows} : CountedOnce(valid, completions[1])

\* A run of 600 valid rows has completed, its first call failed with an
\* error, its second ended well and its third threw.
C29_Witness ==
  /\ OnlineRunDone /\ progress.status = "complete"
  /\ Len(ValidRows) = 600
  /\ Len(calls) = 3
  /\ calls[1].result = "error" /\ calls[2].result = "ok"
  /\ calls[3].result = "throw"
  /\ completions[1].imported = 250
  /\ completions[1].skipped = 350


-----------------------------------------------------------------------------
(* The end of an import run.                                               *)

\* C30: when every awaited call ends, a run that is importing reaches
\* complete or error, whichever calls fail; and a run that is complete has
\* called onImportComplete exactly once.
C30_RunEnds ==
  /\ [](progress.status = "complete" => Len(completions) = 1)
  /\ (progress.status = "importing") ~> (progress.status \in {"complete", "error"})

\* A run of three chunks, every call of which failed, is complete and has
\* called onImportComplete once.
C30_Witness ==
  /\ OnlineRunDone /\ progress.status = "complete"
  /\ Len(calls) = 3
  /\ \A k \in 1..Len(calls) : Failed(k)
  /\ Len(completions) = 1
  /\ completions[1].imported = 0

=============================================================================
